---- MODULE Spec2Model ----
(***************************************************************************)
(* Research workflow of ResearchAgent: ResearchWorkflow.stream_interactive *)
(* driving the LangGraph state graph built by create_research_graph        *)
(* (coordinator -> planner -> human_review -> researcher* -> rapporteur),  *)
(* with the agents the nodes call (Coordinator, Planner, Researcher,       *)
(* Rapporteur).  The language model, the search adapters and the human     *)
(* decision are inputs drawn from small sets.                              *)
(***************************************************************************)
EXTENDS Integers, Sequences, FiniteSets, TLC

VARIABLES
    approval_state,    \* main_web.py's module-level dict shared by its threads
    pc,                \* position of the stream_interactive generator
    node,              \* next node of the graph (the checkpoint's "next")
    state,             \* ResearchState: the values of the graph's channels
    auto_approve,      \* stream_interactive argument
    has_callback,      \* human_approval_callback is not None
    approval_handled,  \* local of stream_interactive
    resuming,          \* first tick of graph.stream(None): no interrupt fires
    nodes_run,         \* history: node functions executed, in order
    decisions,         \* history: what each human_approval_callback call did
    llm_yes,           \* the model answered "YES" to the last sufficiency prompt
    served,            \* history: the tasks get_next_task handed out, in order
    calls,             \* log of the direct calls of a method on a state
    memory             \* the VectorMemory: recent_cache, fallback_storage, the clock

vars == <<approval_state, pc, node, state, auto_approve, has_callback, approval_handled,
          resuming, nodes_run, decisions, llm_yes, served, calls, memory>>

-----------------------------------------------------------------------------
(* Bounds of the model *)

\* longest sub_tasks list the language model returns
MaxTasks == 2
\* longest sub_tasks list the language model returns for a modified plan
MaxModifiedTasks == 1
\* largest estimated_iterations the language model returns
MaxEst == 1
\* largest max_iterations argument passed to stream_interactive
MaxUserIter == 2

(* Program constants *)

\* Coordinator.initialize_research: 'max_iterations': 5
DefaultMaxIterations == 5
\* plan.get('estimated_iterations', 3)
DefaultEstimatedIterations == 3
\* t.get('priority', 99)
DefaultPriority == 99
\* Researcher.max_requests_per_task
max_requests_per_task == 3
\* evaluate_context_sufficiency: iteration >= 2 and len(results) >= 10
SufficientIterations == 2
SufficientResults == 10

-----------------------------------------------------------------------------
(* Values *)

\* Python None for the optional string fields
NoneStr == "<None>"

\* approval_state as main_web.py defines it and as reset_state rewrites it;
\* approved is an optional value: <<>> is None
InitialApprovalState == [waiting |-> FALSE, approved |-> <<>>, feedback |-> NoneStr]

QueryTypes == {"GREETING", "INAPPROPRIATE", "RESEARCH"}
Queries == {"hello"}
OutputFormats == {"markdown", "html"}

\* raw answers of the language model to the classification prompt
ClassifyAnswers ==
    {"GREETING", " greeting\n", "INAPPROPRIATE", " Inappropriate ", "RESEARCH",
     "not sure", ""}
\* raw answers of the language model to the simple-response prompt
SimpleAnswers == {"Hi there!", "  "}
\* feedback strings the human decision can carry
Feedbacks == {"add a task", ""}

\* str.strip().upper() on the answers above
StripUpper(s) ==
    CASE s = " greeting\n" -> "GREETING"
      [] s = " yes\n" -> "YES"
      [] s = " Inappropriate " -> "INAPPROPRIATE"
      [] s = "not sure" -> "NOT SURE"
      [] OTHER -> s

\* str.strip() on the answers above
Strip(s) == IF s = "  " THEN "" ELSE s

\* Python truthiness of an optional string
TruthyStr(s) == s # NoneStr /\ s # ""

TaskIds == 1..2
\* a sub-task without a 'priority' key sorts as DefaultPriority
Priorities == {1, DefaultPriority}
\* "<missing>" stands for a sub-task dict without a 'status' key
NoStatus == "<missing>"
\* SubTask.status: pending, in_progress, completed
Statuses == {"pending", "in_progress", "completed"}

\* allowed_sources = {"tavily"}
AllowedSources == {"tavily"}
\* ["tavily"], the default sources list
DefaultSources == <<"tavily">>
\* stands for a sub-task dict without a 'sources' key (or with None there)
NoSources == <<"<missing>">>

\* a sub-task as the language model returns it to the workflow: a new task,
\* declared pending or left without a status
RawTasks ==
    [task_id : TaskIds, priority : Priorities, status : {"pending", NoStatus},
     description : {<<"task">>}, search_queries : {<<"q1">>}, sources : {NoSources}]

RECURSIVE SeqsUpTo(_, _)
SeqsUpTo(S, n) ==
    IF n = 0 THEN {<<>>}
    ELSE LET shorter == SeqsUpTo(S, n - 1)
         IN  shorter \cup {Append(s, x) : s \in {t \in shorter : Len(t) = n - 1}, x \in S}

\* A plan dict.  empty_dict: the dict is {} (falsy in Python); has_est: the
\* 'estimated_iterations' key is present.
RawPlans ==
    [empty_dict : {FALSE}, research_goal : {"goal"},
     sub_tasks : SeqsUpTo(RawTasks, MaxTasks),
     has_est : {TRUE}, estimated_iterations : 0..MaxEst]
    \cup [empty_dict : {FALSE}, research_goal : {"goal"},
          sub_tasks : SeqsUpTo(RawTasks, MaxTasks),
          has_est : {FALSE}, estimated_iterations : {0}]
    \cup {[empty_dict |-> TRUE, research_goal |-> "goal", sub_tasks |-> <<>>,
           has_est |-> FALSE, estimated_iterations |-> 0]}

\* what the language model answers to a planning prompt: text without braces,
\* braces around something json.loads rejects, or a JSON object
PlannerAnswers ==
    {[kind |-> "no_braces"], [kind |-> "bad_json"]}
    \cup {[kind |-> "json", plan |-> p] : p \in RawPlans}

\* what the language model answers to a plan-modification prompt
ModifyAnswers ==
    {a \in PlannerAnswers :
        a.kind = "json" => Len(a.plan.sub_tasks) <= MaxModifiedTasks}

\* An optional value is a sequence of length 0 (None) or 1.
Truthy(plan_opt) == plan_opt # <<>> /\ ~plan_opt[1].empty_dict

-----------------------------------------------------------------------------
(* Coordinator *)

classify_query_passThrough(answer) == StripUpper(answer)

\* Coordinator._classify_query on the model's answer
classify_query(answer) ==
    LET query_type == StripUpper(answer)
    IN  IF query_type \notin QueryTypes THEN "RESEARCH" ELSE query_type

\* Coordinator._handle_simple_query
handle_simple_query(answer) == Strip(answer)

\* Coordinator.initialize_research
initialize_research(user_query, auto, output_format, classify_answer, simple_answer) ==
    LET query_type == classify_query(classify_answer)
        s == [query |-> user_query,
              query_type |-> query_type,
              research_plan |-> <<>>,
              plan_approved |-> FALSE,
              research_results |-> <<>>,
              current_task |-> <<>>,
              iteration_count |-> 0,
              max_iterations |-> DefaultMaxIterations,
              needs_more_research |-> TRUE,
              final_report |-> NoneStr,
              output_format |-> output_format,
              current_step |-> "initializing",
              user_feedback |-> NoneStr,
              auto_approve_plan |-> auto,
              simple_response |-> NoneStr]
    IN  IF query_type \in {"GREETING", "INAPPROPRIATE"}
        THEN [s EXCEPT !.simple_response = handle_simple_query(simple_answer),
                       !.current_step = "completed",
                       !.needs_more_research = FALSE]
        ELSE s

\* Coordinator.delegate_to_planner is called by coordinator_node but the
\* Coordinator class defines no such method; its tests expect it to set
\* current_step to 'planning' and to keep every other field.
delegate_to_planner(s) == [s EXCEPT !.current_step = "planning"]

-----------------------------------------------------------------------------
(* Planner *)

\* estimated_iterations of Planner._create_fallback_plan
FallbackEstimatedIterations == 2

\* f'Research: {query}'
research_description(query) == <<"Research: ", query>>

\* Planner._create_fallback_plan
create_fallback_plan(query) ==
    [empty_dict |-> FALSE,
     research_goal |-> query,
     sub_tasks |-> <<[task_id |-> 1, priority |-> 1, status |-> "pending",
                      description |-> research_description(query),
                      search_queries |-> <<query>>,
                      sources |-> <<"tavily">>]>>,
     has_est |-> TRUE,
     estimated_iterations |-> FallbackEstimatedIterations]

\* task['sources'] = [s for s in sources if s in allowed_sources] or ["tavily"],
\* with sources = task.get('sources') or ["tavily"]
filter_sources(declared) ==
    LET sources == IF declared = NoSources \/ declared = <<>> THEN DefaultSources
                   ELSE declared
        allowed(x) == x \in AllowedSources
        kept == SelectSeq(sources, allowed)
    IN  IF kept = <<>> THEN DefaultSources ELSE kept

\* the loop over plan.get('sub_tasks', []): sources filtered, status defaulted
default_status(tasks) ==
    [i \in 1..Len(tasks) |->
        [tasks[i] EXCEPT !.sources = filter_sources(@),
                         !.status = IF @ = NoStatus THEN "pending" ELSE @]]

\* plan.get('estimated_iterations', 3)
estimated_iterations_of(plan) ==
    IF plan.has_est THEN plan.estimated_iterations ELSE DefaultEstimatedIterations

create_research_plan_passOnBadJson(s, answer) ==
    IF answer.kind = "bad_json"
    THEN s
    ELSE LET parsed == IF answer.kind = "json" THEN answer.plan
                       ELSE create_fallback_plan(s.query)
             plan == [parsed EXCEPT !.sub_tasks = default_status(parsed.sub_tasks)]
         IN  [s EXCEPT !.research_plan = <<plan>>,
                       !.max_iterations = estimated_iterations_of(plan)]

\* Planner.create_research_plan; answer is the language model's response
create_research_plan(s, answer) ==
    IF answer.kind = "bad_json"
    THEN [s EXCEPT !.research_plan = <<create_fallback_plan(s.query)>>]
    ELSE LET parsed == IF answer.kind = "json" THEN answer.plan
                       ELSE create_fallback_plan(s.query)
             plan == [parsed EXCEPT !.sub_tasks = default_status(parsed.sub_tasks)]
         IN  [s EXCEPT !.research_plan = <<plan>>,
                       !.max_iterations = estimated_iterations_of(plan)]

modify_plan_fallbackOnFailure(s, answer) ==
    IF answer.kind = "json" THEN [s EXCEPT !.research_plan = <<answer.plan>>]
    ELSE [s EXCEPT !.research_plan = <<create_fallback_plan(s.query)>>]

\* Planner.modify_plan
modify_plan(s, answer) ==
    IF answer.kind = "json" THEN [s EXCEPT !.research_plan = <<answer.plan>>] ELSE s

\* the sort key of get_next_task: (priority, task_id)
KeyLE(a, b) ==
    \/ a.priority < b.priority
    \/ a.priority = b.priority /\ a.task_id <= b.task_id

\* sorted(): a stable sort.  A position's place in the sorted order is one more
\* than the number of positions sorted before it: those with a smaller key, and
\* those with an equal key that come earlier in the list.
SortsBefore(tasks, j, i) ==
    \/ ~KeyLE(tasks[i], tasks[j])
    \/ KeyLE(tasks[j], tasks[i]) /\ j < i

SortedPositions(tasks, n) ==
    [r \in 1..n |->
        CHOOSE i \in 1..n :
            Cardinality({j \in 1..n : SortsBefore(tasks, j, i)}) + 1 = r]

\* position in sub_tasks of the task get_next_task returns, 0 for None
next_task_position_byListOrder(s) ==
    IF ~Truthy(s.research_plan) THEN 0
    ELSE LET tasks == s.research_plan[1].sub_tasks
             pending == {i \in 1..Len(tasks) : tasks[i].status = "pending"}
         IN  IF pending = {} THEN 0 ELSE CHOOSE i \in pending : \A k \in pending : i <= k

\* (tasks and the sorted order are each computed once, as in the method)
next_task_position(s) ==
    IF ~Truthy(s.research_plan) THEN 0
    ELSE CHOOSE p \in
           {LET pending == {i \in 1..Len(order) : tasks[order[i]].status = "pending"}
            IN  IF pending = {} THEN 0
                ELSE order[CHOOSE i \in pending : \A k \in pending : i <= k] :
            <<tasks, order>> \in {<<ts, SortedPositions(ts, Len(ts))>> :
                                    ts \in {s.research_plan[1].sub_tasks}}} : TRUE

\* Planner.get_next_task: the task, as an optional value
get_next_task(s) ==
    LET i == next_task_position(s)
    IN  IF i = 0 THEN <<>> ELSE <<s.research_plan[1].sub_tasks[i]>>

\* raw answers of the language model to the sufficiency prompt
SufficiencyAnswers == {"YES", " yes\n", "NO", "YES.", ""}

\* response.strip().upper() == "YES"
answer_is_yes(answer) == StripUpper(answer) = "YES"

\* evaluate_context_sufficiency reaches its language-model call
consults_llm(s) ==
    /\ s.iteration_count < s.max_iterations
    /\ s.research_results # <<>>
    /\ ~(s.iteration_count >= SufficientIterations
         /\ Len(s.research_results) >= SufficientResults)

evaluate_context_sufficiency_resultsFirst(s, yes) ==
    IF s.research_results = <<>> THEN FALSE
    ELSE IF s.iteration_count >= s.max_iterations THEN TRUE
    ELSE IF s.iteration_count >= SufficientIterations
            /\ Len(s.research_results) >= SufficientResults THEN TRUE
    ELSE yes

evaluate_context_sufficiency_skipsHeuristic(s, yes) ==
    IF s.iteration_count >= s.max_iterations THEN TRUE
    ELSE IF s.research_results = <<>> THEN FALSE
    ELSE yes

\* Planner.evaluate_context_sufficiency; yes: the model answers "YES" if asked
evaluate_context_sufficiency(s, yes) ==
    IF s.iteration_count >= s.max_iterations THEN TRUE
    ELSE IF s.research_results = <<>> THEN FALSE
    ELSE IF s.iteration_count >= SufficientIterations
            /\ Len(s.research_results) >= SufficientResults THEN TRUE
    ELSE yes

-----------------------------------------------------------------------------
(* Researcher *)

\* what execute_task gathers for a task: the cache-hit result, or one result
\* per search attempt that returned one (at most max_requests_per_task)
\* (the live counts tried: no result, or one from every attempt the budget allows)
LiveCounts == {0, max_requests_per_task}
TaskOutcomes ==
    {[kind |-> "cached", n |-> 1]}
    \cup {[kind |-> "live", n |-> k] : k \in LiveCounts}

\* 'results' is the list of items an adapter returned or, on a cache hit,
\* the stored results_summary: the text _summarize_results made of
\* {'search_results': [...]} when the record was stored
task_results(task, outcome) ==
    [i \in 1..outcome.n |->
        [task_id |-> task.task_id,
         source |-> IF outcome.kind = "cached" THEN "cached_vector_memory" ELSE "tavily",
         results |-> IF outcome.kind = "cached"
                     THEN [type |-> "str", value |-> "Found 3 results"]
                     ELSE [type |-> "list",
                           value |-> <<[title |-> "Article 1", snippet |-> "Content 1"]>>]]]

\* position of the sub-task _add_results_to_state marks: the first whose
\* task_id matches, 0 if there is none
marked_position(s, task) ==
    IF ~Truthy(s.research_plan) THEN 0
    ELSE LET tasks == s.research_plan[1].sub_tasks
             same == {i \in 1..Len(tasks) : tasks[i].task_id = task.task_id}
         IN  IF same = {} THEN 0 ELSE CHOOSE i \in same : \A k \in same : i <= k

add_results_to_state_marksAll(s, results, task) ==
    [s EXCEPT !.research_results = @ \o results,
              !.research_plan =
                  IF ~Truthy(@) THEN @
                  ELSE <<[@[1] EXCEPT !.sub_tasks =
                            [i \in 1..Len(@) |-> [@[i] EXCEPT !.status = "completed"]]]>>]

\* Researcher._add_results_to_state
add_results_to_state(s, results, task) ==
    LET m == marked_position(s, task)
    IN  [s EXCEPT !.research_results = @ \o results,
                  !.research_plan =
                      IF m = 0 THEN @
                      ELSE <<[@[1] EXCEPT !.sub_tasks[m].status = "completed"]>>]

\* Researcher.execute_task: both paths end in _add_results_to_state
execute_task(s, task, outcome) ==
    add_results_to_state(s, task_results(task, outcome), task)

\* the cache-use gate of execute_task: similarity > 0.9 (in hundredths) and
\* quality_score >= 4.0 (in tenths)
CacheSimilarityGate == 90
CacheQualityGate == 40

\* Researcher._search: <<>> is None (unknown source, or an adapter that was
\* not configured); an adapter that fails gives an error-tagged result
search(r, query, source) ==
    IF \/ source = "tavily" /\ r.tavily
       \/ source = "arxiv"
       \/ source = "mcp" /\ r.mcp
    THEN <<[query |-> query, source |-> source, error |-> source \in r.failing]>>
    ELSE <<>>

\* result['task_id'] = task['task_id']
tagged(result, task) ==
    [task_id |-> task.task_id, query |-> result.query,
     source |-> result.source, error |-> result.error]

\* the inner loop of execute_task over the sources of one query, from the
\* si-th on; acc holds results, the attempts made and request_count
RECURSIVE standard_search_sources(_, _, _, _, _)
standard_search_sources_noBudget(r, task, query, si, acc) ==
    IF si > Len(task.sources) THEN acc
    ELSE LET result == search(r, query, task.sources[si])
         IN  standard_search_sources(r, task, query, si + 1,
                 [results |-> acc.results
                                 \o [k \in 1..Len(result) |-> tagged(result[k], task)],
                  attempts |-> Append(acc.attempts, <<query, task.sources[si]>>),
                  request_count |-> acc.request_count + 1])

standard_search_sources(r, task, query, si, acc) ==
    IF si > Len(task.sources) \/ acc.request_count >= r.max_requests_per_task
    THEN acc
    ELSE LET result == search(r, query, task.sources[si])
         IN  standard_search_sources(r, task, query, si + 1,
                 [results |-> acc.results
                                 \o [k \in 1..Len(result) |-> tagged(result[k], task)],
                  attempts |-> Append(acc.attempts, <<query, task.sources[si]>>),
                  request_count |-> acc.request_count + 1])

\* the outer loop of execute_task over the queries, from the qi-th on
RECURSIVE standard_search(_, _, _, _)
standard_search(r, task, qi, acc) ==
    IF qi > Len(task.search_queries) THEN acc
    ELSE LET a == standard_search_sources(r, task, task.search_queries[qi], 1, acc)
         IN  IF a.request_count >= r.max_requests_per_task THEN a
             ELSE standard_search(r, task, qi + 1, a)

\* the candidates of the cache probe that pass the gate
high_quality_similar_inclusive(similar_queries) ==
    SelectSeq(similar_queries,
              LAMBDA q : q.similarity >= CacheSimilarityGate
                         /\ q.quality_score >= CacheQualityGate)

high_quality_similar(similar_queries) ==
    SelectSeq(similar_queries,
              LAMBDA q : q.similarity > CacheSimilarityGate
                         /\ q.quality_score >= CacheQualityGate)

\* max(high_quality_similar, key=similarity): the first of the most similar
best_similar(hq) ==
    hq[CHOOSE i \in 1..Len(hq) :
          \A k \in 1..Len(hq) : /\ hq[k].similarity <= hq[i].similarity
                                 /\ (k < i => hq[k].similarity < hq[i].similarity)]

\* Researcher._create_cached_result
create_cached_result(task, similar_query) ==
    <<[task_id |-> task.task_id,
       query |-> task.description,
       source |-> "cached_vector_memory",
       results |-> similar_query.results_summary,
       similarity_score |-> similar_query.similarity,
       cached_quality |-> similar_query.quality_score]>>

\* Researcher.execute_task with what it did on the way: the search attempts
\* in order and whether it stored to the vector memory; similar_queries is
\* what the cache probe returns
execute_task_traced(r, s, task, similar_queries) ==
    LET hq == high_quality_similar(similar_queries)
        a == standard_search(r, task, 1,
                 [results |-> <<>>, attempts |-> <<>>, request_count |-> 0])
    IN  IF r.vector_memory /\ hq # <<>>
        THEN [state |-> add_results_to_state(s, create_cached_result(task, best_similar(hq)), task),
              attempts |-> <<>>,
              stored |-> FALSE]
        ELSE [state |-> add_results_to_state(s, a.results, task),
              attempts |-> a.attempts,
              stored |-> r.vector_memory /\ a.results # <<>>]

-----------------------------------------------------------------------------
(* VectorMemory, in the build without chromadb: documents are kept in
   fallback_storage.  A text is a sequence of characters, a similarity an
   exact fraction <<numerator, denominator>>, the clock counts hours. *)

cache_max_size == 100
cache_expiry_hours == 2
CacheTopMatches == 3
FallbackLimit == 5

EmptyMemory ==
    [recent_cache |-> <<>>, fallback_storage |-> <<>>,
     collection |-> [present |-> FALSE, items |-> <<>>], now |-> 0]

\* VectorMemory.__init__ when chromadb and the embedding model are available:
\* the collection exists and fallback_storage is never created
EmptyPersistentMemory ==
    [EmptyMemory EXCEPT !.collection = [present |-> TRUE, items |-> <<>>]]

\* str.lower()
lower(text) == [i \in DOMAIN text |-> IF text[i] = "A" THEN "a" ELSE text[i]]

\* set(text.split()): the maximal runs without a blank
words(text) ==
    {SubSeq(text, i, j) : <<i, j>> \in
        {<<i, j>> \in (1..Len(text)) \X (1..Len(text)) :
            /\ i <= j
            /\ \A k \in i..j : text[k] # " "
            /\ i = 1 \/ text[i - 1] = " "
            /\ j = Len(text) \/ text[j + 1] = " "}}

Max(a, b) == IF a >= b THEN a ELSE b
Min(a, b) == IF a <= b THEN a ELSE b
Abs(a) == IF a >= 0 THEN a ELSE 0 - a

\* a > b for fractions
Greater(a, b) == a[1] * b[2] > b[1] * a[2]

\* SequenceMatcher.find_longest_match: <<i, j, k>>, a[i..i+k-1] = b[j..j+k-1],
\* the longest block, the earliest in a, then the earliest in b
longest_match(a, b) ==
    LET blocks == {<<i, j, k>> \in (1..Len(a)) \X (1..Len(b)) \X (1..Min(Len(a), Len(b))) :
                      /\ i + k - 1 <= Len(a)
                      /\ j + k - 1 <= Len(b)
                      /\ SubSeq(a, i, i + k - 1) = SubSeq(b, j, j + k - 1)}
    IN  IF blocks = {} THEN <<1, 1, 0>>
        ELSE CHOOSE x \in blocks :
                \A y \in blocks :
                    \/ x[3] > y[3]
                    \/ x[3] = y[3] /\ x[1] < y[1]
                    \/ x[3] = y[3] /\ x[1] = y[1] /\ x[2] <= y[2]

\* the matches SequenceMatcher.get_matching_blocks adds up
RECURSIVE matching_size(_, _)
matching_size(a, b) ==
    LET x == longest_match(a, b)
    IN  IF x[3] = 0 THEN 0
        ELSE x[3]
             + matching_size(SubSeq(a, 1, x[1] - 1), SubSeq(b, 1, x[2] - 1))
             + matching_size(SubSeq(a, x[1] + x[3], Len(a)), SubSeq(b, x[2] + x[3], Len(b)))

\* Levenshtein.distance
RECURSIVE distance(_, _)
distance(a, b) ==
    IF a = <<>> THEN Len(b)
    ELSE IF b = <<>> THEN Len(a)
    ELSE IF Head(a) = Head(b) THEN distance(Tail(a), Tail(b))
    ELSE 1 + Min(distance(Tail(a), Tail(b)),
                 Min(distance(Tail(a), b), distance(a, Tail(b))))

\* the divisions of _check_cache that raise ZeroDivisionError
similarity_raises(query, cached) ==
    \/ Max(Cardinality(words(lower(query))), Cardinality(words(lower(cached)))) = 0
    \/ Max(Len(query), Len(cached)) = 0

\* combined_sim of _check_cache: 0.3 word overlap + 0.4 SequenceMatcher ratio
\* + 0.2 edit similarity + 0.1 length similarity
combined_sim(query, cached) ==
    LET a == lower(query)
        b == lower(cached)
        W == Max(Cardinality(words(a)), Cardinality(words(b)))
        wn == Cardinality(words(a) \cap words(b))
        T == IF Len(a) + Len(b) = 0 THEN 1 ELSE Len(a) + Len(b)
        sn == IF Len(a) + Len(b) = 0 THEN 1 ELSE 2 * matching_size(a, b)
        M == Max(Len(a), Len(b))
        en == M - distance(a, b)
        L == Max(Len(query), Len(cached))
        ln == L - Abs(Len(query) - Len(cached))
    IN  <<3 * wn * T * M * L + 4 * sn * W * M * L + 2 * en * W * T * L + ln * W * T * M,
          10 * W * T * M * L>>

\* query texts: empty, one word in two cases, five blanks, four blanks and a
\* word
Texts ==
    {<<>>, <<"a">>, <<"A">>,
     <<" ", " ", " ", " ", " ">>, <<" ", " ", " ", " ", "a">>}

\* combined_sim and its failure for every pair of texts, computed once
SimilarityTable ==
    {IF similarity_raises(pair[1], pair[2])
     THEN [query |-> pair[1], cached |-> pair[2], raises |-> TRUE, value |-> <<0, 1>>]
     ELSE [query |-> pair[1], cached |-> pair[2], raises |-> FALSE,
           value |-> combined_sim(pair[1], pair[2])] :
     pair \in Texts \X Texts}

\* the entry of the table for a query and a cached text
similarity(query, cached) ==
    CHOOSE e \in SimilarityTable : e.query = query /\ e.cached = cached

is_cache_expired_atTtl(m, cached_item) ==
    m.now - cached_item.timestamp >= cache_expiry_hours

\* VectorMemory._is_cache_expired
is_cache_expired(m, cached_item) == m.now - cached_item.timestamp > cache_expiry_hours

\* sorted(results, key=similarity, reverse=True)[:limit]: equal similarities
\* keep their order
top_matches(results, limit) ==
    LET before(i) == {k \in 1..Len(results) :
                        \/ Greater(results[k].similarity, results[i].similarity)
                        \/ /\ ~Greater(results[i].similarity, results[k].similarity)
                           /\ k < i}
        n == Min(limit, Len(results))
    IN  [p \in 1..n |->
            results[CHOOSE i \in 1..Len(results) : Cardinality(before(i)) = p - 1]]

\* VectorMemory._check_cache
check_cache(m, query) ==
    LET live == SelectSeq(m.recent_cache, LAMBDA item : ~is_cache_expired(m, item))
        similar == SelectSeq(live,
                      LAMBDA item : Greater(similarity(query, item.data.query).value,
                                            <<55, 100>>))
    IN  IF \E k \in 1..Len(live) : similarity(query, live[k].data.query).raises
        THEN [raised |-> TRUE, results |-> <<>>]
        ELSE [raised |-> FALSE,
              results |-> top_matches(
                  [k \in 1..Len(similar) |->
                      [query |-> similar[k].data.query,
                       similarity |-> similarity(query, similar[k].data.query).value,
                       quality_score |-> similar[k].data.quality_score,
                       query_id |-> similar[k].query_id]],
                  CacheTopMatches)]

\* VectorMemory._fallback_similarity_search: Jaccard similarity of the words
fallback_similarity_search(m, query, limit) ==
    LET jaccard(doc) ==
            LET u == Cardinality(words(lower(query)) \cup words(lower(doc.query)))
            IN  IF u > 0
                THEN <<Cardinality(words(lower(query)) \cap words(lower(doc.query))), u>>
                ELSE <<0, 1>>
        similar == SelectSeq(m.fallback_storage,
                             LAMBDA doc : Greater(jaccard(doc), <<3, 10>>))
    IN  top_matches([k \in 1..Len(similar) |->
                        [query |-> similar[k].query,
                         similarity |-> jaccard(similar[k]),
                         quality_score |-> similar[k].quality_score,
                         query_id |-> similar[k].query_id]],
                    limit)

\* VectorMemory.find_similar_queries with the layer that answered: the
\* recency layer when it has candidates, the backing layer otherwise; an
\* exception is swallowed and gives []
find_similar_queries_traced(m, query, limit) ==
    CHOOSE r \in
      {IF cached_results.raised
       THEN [layer |-> "raised", results |-> <<>>]
       ELSE IF cached_results.results # <<>>
       THEN [layer |-> "recency", results |-> cached_results.results]
       ELSE [layer |-> "fallback",
             results |-> fallback_similarity_search(m, query, limit)] :
       cached_results \in {check_cache(m, query)}} : TRUE

\* VectorMemory.find_similar_queries
find_similar_queries(m, query, limit) == find_similar_queries_traced(m, query, limit).results

\* VectorMemory._generate_query_id: the md5 digest identifies the text
generate_query_id(query) == query

\* d[key] = value on a dict kept as a sequence: an existing key keeps its place
put(d, key, value) ==
    IF \E k \in 1..Len(d) : d[k].query_id = key
    THEN [k \in 1..Len(d) |-> IF d[k].query_id = key THEN value ELSE d[k]]
    ELSE Append(d, value)

update_cache_evictsFirst(m, query_id, document) ==
    LET kept == IF Len(m.recent_cache) >= cache_max_size
                THEN Tail(m.recent_cache)
                ELSE m.recent_cache
    IN  put(kept, query_id,
            [query_id |-> query_id, data |-> document, timestamp |-> m.now])

\* VectorMemory._update_cache
update_cache(m, query_id, document) ==
    LET oldest == CHOOSE i \in 1..Len(m.recent_cache) :
                     \A k \in 1..Len(m.recent_cache) :
                        /\ m.recent_cache[i].timestamp <= m.recent_cache[k].timestamp
                        /\ (k < i => m.recent_cache[k].timestamp > m.recent_cache[i].timestamp)
        kept == IF Len(m.recent_cache) >= cache_max_size
                THEN SelectSeq(m.recent_cache,
                               LAMBDA item : item # m.recent_cache[oldest])
                ELSE m.recent_cache
    IN  put(kept, query_id,
            [query_id |-> query_id, data |-> document, timestamp |-> m.now])

\* str(quality_score), as written to the collection's metadata
str(score) == <<"str", score>>

\* collection.add of one document: a new id is appended; an id already
\* present leaves the collection as it was (the add is ignored or raises, and
\* store_research_result catches the exception)
collection_add(items, query_id, document) ==
    IF \E k \in 1..Len(items) : items[k].id = query_id
    THEN items
    ELSE Append(items, [id |-> query_id, document |-> document,
                        metadata |-> [query |-> document.query,
                                      quality_score |-> str(document.quality_score),
                                      timestamp |-> document.timestamp]])

\* VectorMemory.store_research_result
store_research_result(m, query, quality_score) ==
    LET query_id == generate_query_id(query)
        document == [query |-> query, quality_score |-> quality_score,
                     timestamp |-> m.now, query_id |-> query_id]
    IN  IF m.collection.present
        THEN [m EXCEPT !.recent_cache = update_cache(m, query_id, document),
                       !.collection.items = collection_add(@, query_id, document)]
        ELSE [m EXCEPT !.recent_cache = update_cache(m, query_id, document),
                       !.fallback_storage = put(@, query_id, document)]

\* a mapping with one key set, the key added when it is missing
with_key(d, key, value) ==
    [k \in DOMAIN d \cup {key} |-> IF k = key THEN value ELSE d[k]]

update_quality_score_touchesCache(m, query_id, new_score) ==
    IF m.collection.present
          /\ \E k \in 1..Len(m.collection.items) : m.collection.items[k].id = query_id
    THEN [m EXCEPT
            !.recent_cache =
                [k \in 1..Len(@) |->
                    IF @[k].query_id = query_id
                    THEN [@[k] EXCEPT !.data.quality_score = new_score]
                    ELSE @[k]],
            !.collection.items =
                [k \in 1..Len(@) |->
                    IF @[k].id = query_id
                    THEN [@[k] EXCEPT
                            !.document = with_key(with_key(@, "quality_score", new_score),
                                                  "updated_timestamp", m.now),
                            !.metadata = with_key(with_key(@, "quality_score", str(new_score)),
                                                  "updated_timestamp", m.now)]
                    ELSE @[k]]]
    ELSE m

\* VectorMemory.update_quality_score: collection.get, then collection.update
\* of the one document found; every exception is caught and printed
update_quality_score(m, query_id, new_score) ==
    IF m.collection.present
          /\ \E k \in 1..Len(m.collection.items) : m.collection.items[k].id = query_id
    THEN [m EXCEPT
            !.collection.items =
                [k \in 1..Len(@) |->
                    IF @[k].id = query_id
                    THEN [@[k] EXCEPT
                            !.document = with_key(with_key(@, "quality_score", new_score),
                                                  "updated_timestamp", m.now),
                            !.metadata = with_key(with_key(@, "quality_score", str(new_score)),
                                                  "updated_timestamp", m.now)]
                    ELSE @[k]]]
    ELSE m

-----------------------------------------------------------------------------
(* Rapporteur *)

\* Rapporteur.generate_report: the report text is abstracted to its format
\* Rapporteur._summarize_findings, the loops before its try block: iterating
\* a text gives one-character strings, and item.get raises AttributeError on
\* the first of them
summarize_findings_raises(results) ==
    \E i \in 1..Len(results) :
        /\ "results" \in DOMAIN results[i]
        /\ results[i].results.type = "str"
        /\ results[i].results.value # ""

generate_report(s) ==
    [s EXCEPT !.final_report = IF s.output_format = "html" THEN "html report"
                               ELSE "markdown report",
              !.current_step = "completed"]

-----------------------------------------------------------------------------
(* The graph's channels *)

\* research_results: Annotated[list, operator.add]
reduce_results(current, update) == current \o update

\* A node returns the state dict it was given.  Every key is written back to
\* its channel; research_results goes through its reducer, and the list the
\* node returns is the channel's own list (extended in place by the node).
write_channels(out) ==
    [out EXCEPT !.research_results = reduce_results(out.research_results, out.research_results)]

-----------------------------------------------------------------------------
(* Conditional edges *)

should_continue_to_planner_ignoresInappropriate(s) ==
    IF s.query_type = "GREETING" THEN "END" ELSE "planner"

\* WorkflowNodes.should_continue_to_planner
should_continue_to_planner(s) ==
    IF s.query_type \in {"GREETING", "INAPPROPRIATE"} THEN "END" ELSE "planner"

should_continue_research_always(s) == "researcher"

\* WorkflowNodes.should_continue_research
should_continue_research(s) ==
    IF ~s.plan_approved THEN "planner" ELSE "researcher"

should_generate_report_skipsSufficiency(s, yes) ==
    IF s.iteration_count >= s.max_iterations THEN "rapporteur"
    ELSE IF get_next_task(s) # <<>> THEN "researcher"
    ELSE "rapporteur"

\* WorkflowNodes.should_generate_report
should_generate_report(s, yes) ==
    IF s.iteration_count >= s.max_iterations THEN "rapporteur"
    ELSE IF evaluate_context_sufficiency(s, yes) THEN "rapporteur"
    ELSE IF get_next_task(s) # <<>> THEN "researcher"
    ELSE "rapporteur"

-----------------------------------------------------------------------------
(* Node functions *)

coordinator_node_retags(s) ==
    IF s.query_type \in {"GREETING", "INAPPROPRIATE"}
    THEN [s EXCEPT !.current_step = "completed", !.query_type = "GREETING"]
    ELSE delegate_to_planner([s EXCEPT !.current_step = "coordinating"])

\* WorkflowNodes.coordinator_node when delegate_to_planner is available
coordinator_node(s) ==
    IF s.query_type \in {"GREETING", "INAPPROPRIATE"}
    THEN [s EXCEPT !.current_step = "completed"]
    ELSE delegate_to_planner([s EXCEPT !.current_step = "coordinating"])

\* planner_node reaches modify_plan or create_research_plan
planner_calls_llm(s) ==
    \/ TruthyStr(s.user_feedback) /\ Truthy(s.research_plan)
    \/ ~Truthy(s.research_plan)

\* WorkflowNodes.planner_node
planner_node(s, answer) ==
    LET s1 == [s EXCEPT !.current_step = "planning"]
    IN  IF TruthyStr(s1.user_feedback) /\ Truthy(s1.research_plan)
        THEN modify_plan(s1, answer)
        ELSE IF ~Truthy(s1.research_plan)
        THEN create_research_plan(s1, answer)
        ELSE s1

\* WorkflowNodes.human_review_node
human_review_node(s) ==
    LET s1 == [s EXCEPT !.current_step = "awaiting_approval"]
    IN  IF s1.auto_approve_plan THEN [s1 EXCEPT !.plan_approved = TRUE] ELSE s1

researcher_node_countsEveryPass(s, outcome) ==
    CHOOSE out \in
      {IF i # 0
       THEN CHOOSE r \in
              {[s2 EXCEPT !.current_task = <<s2.research_plan[1].sub_tasks[i]>>,
                          !.iteration_count = @ + 1] :
               s2 \in {execute_task(s1, s1.research_plan[1].sub_tasks[i], outcome)}} : TRUE
       ELSE [s1 EXCEPT !.needs_more_research = FALSE, !.iteration_count = @ + 1] :
       <<s1, i>> \in {<<x, next_task_position(x)>> :
                         x \in {[s EXCEPT !.current_step = "researching"]}}} : TRUE

researcher_node_noCount(s, outcome) ==
    CHOOSE out \in
      {IF i # 0
       THEN CHOOSE r \in
              {[s2 EXCEPT !.current_task = <<s2.research_plan[1].sub_tasks[i]>>] :
               s2 \in {execute_task(s1, s1.research_plan[1].sub_tasks[i], outcome)}} : TRUE
       ELSE [s1 EXCEPT !.needs_more_research = FALSE] :
       <<s1, i>> \in {<<x, next_task_position(x)>> :
                         x \in {[s EXCEPT !.current_step = "researching"]}}} : TRUE

\* WorkflowNodes.researcher_node.  i is the position in sub_tasks of next_task
\* (0 for None); next_task is the dict inside the plan, so current_task shows
\* the status execute_task left on it.  s1, i and s2 are each computed once,
\* as the statements of the method are.
researcher_node(s, outcome) ==
    CHOOSE out \in
      {IF i # 0
       THEN CHOOSE r \in
              {[s2 EXCEPT !.current_task = <<s2.research_plan[1].sub_tasks[i]>>,
                          !.iteration_count = @ + 1] :
               s2 \in {execute_task(s1, s1.research_plan[1].sub_tasks[i], outcome)}} : TRUE
       ELSE [s1 EXCEPT !.needs_more_research = FALSE] :
       <<s1, i>> \in {<<x, next_task_position(x)>> :
                         x \in {[s EXCEPT !.current_step = "researching"]}}} : TRUE

\* WorkflowNodes.rapporteur_node
rapporteur_node(s) == generate_report([s EXCEPT !.current_step = "generating_report"])

-----------------------------------------------------------------------------
(* State after construction of ResearchWorkflow: nothing has run. *)

BlankState ==
    [query |-> "hello",
     query_type |-> "RESEARCH",
     research_plan |-> <<>>,
     plan_approved |-> FALSE,
     research_results |-> <<>>,
     current_task |-> <<>>,
     iteration_count |-> 0,
     max_iterations |-> DefaultMaxIterations,
     needs_more_research |-> TRUE,
     final_report |-> NoneStr,
     output_format |-> "markdown",
     current_step |-> "initializing",
     user_feedback |-> NoneStr,
     auto_approve_plan |-> FALSE,
     simple_response |-> NoneStr]

Init ==
    /\ pc = "idle"
    /\ node = "START"
    /\ state = BlankState
    /\ auto_approve = FALSE
    /\ approval_state = InitialApprovalState
    /\ has_callback = FALSE
    /\ approval_handled = FALSE
    /\ resuming = FALSE
    /\ nodes_run = <<>>
    /\ decisions = <<>>
    /\ llm_yes = FALSE
    /\ served = <<>>
    /\ calls = <<>>
    /\ memory = EmptyMemory

Running == pc \in {"streaming", "resumed"}

\* stream_interactive up to the first graph.stream call.  max_iterations = 0
\* stands for None (both are falsy in `if max_iterations:`).  When logged,
\* calls keeps the caller's argument.
stream_interactive_starts(logged) ==
    /\ pc = "idle"
    /\ \E q \in Queries, auto \in BOOLEAN, cb \in BOOLEAN, fmt \in OutputFormats,
          ca \in ClassifyAnswers, sa \in SimpleAnswers, max_iterations \in 0..MaxUserIter :
          LET initial_state == initialize_research(q, auto, fmt, ca, sa)
          IN  /\ state' = write_channels(
                              IF max_iterations # 0
                              THEN [initial_state EXCEPT !.max_iterations = max_iterations]
                              ELSE initial_state)
              /\ auto_approve' = auto
              /\ has_callback' = cb
              /\ calls' = IF logged
                          THEN <<[op |-> "stream_interactive",
                                  max_iterations |-> max_iterations]>>
                          ELSE calls
    /\ pc' = "streaming"
    /\ node' = "coordinator"
    /\ approval_handled' = FALSE
    /\ UNCHANGED <<approval_state, memory, resuming, nodes_run, decisions, llm_yes, served>>

StartRun == stream_interactive_starts(FALSE)

\* the same call, with the caller's max_iterations remembered
StartRunLogged == stream_interactive_starts(TRUE)

\* WorkflowNodes.coordinator_node run by the graph.  The Coordinator class
\* defines no delegate_to_planner (has_delegate = FALSE): for a RESEARCH state
\* the call raises AttributeError, which leaves graph.stream and
\* stream_interactive.
CoordinatorStep(has_delegate) ==
    /\ Running
    /\ node = "coordinator"
    /\ nodes_run' = Append(nodes_run, "coordinator")
    /\ IF state.query_type \in {"GREETING", "INAPPROPRIATE"} \/ has_delegate
       THEN LET out == coordinator_node(state)
            IN  /\ state' = write_channels(out)
                /\ node' = should_continue_to_planner(out)
                /\ pc' = pc
       ELSE /\ pc' = "raised"
            /\ UNCHANGED <<state, node>>
    /\ UNCHANGED <<approval_state, memory, auto_approve, has_callback, approval_handled, resuming,
                   decisions, llm_yes, served, calls>>

\* the coordinator node with the Coordinator class as it is in the source
CoordinatorNode == CoordinatorStep(FALSE)

\* the coordinator node with a Coordinator that has the delegate_to_planner
\* its tests describe
CoordinatorNodeDelegating == CoordinatorStep(TRUE)

\* the planner node, followed by the edge planner -> human_review
PlannerNode ==
    /\ Running
    /\ node = "planner"
    /\ IF ~planner_calls_llm(state)
       THEN state' = write_channels(planner_node(state, [kind |-> "no_braces"]))
       ELSE \E answer \in IF Truthy(state.research_plan) THEN ModifyAnswers
                           ELSE PlannerAnswers :
               state' = write_channels(planner_node(state, answer))
    /\ node' = "human_review"
    /\ nodes_run' = Append(nodes_run, "planner")
    /\ UNCHANGED <<approval_state, memory, pc, auto_approve, has_callback, approval_handled, resuming,
                   decisions, llm_yes, served, calls>>

\* interrupt_before = ["human_review"]: the stream yields __interrupt__ and
\* ends.  In the first stream the generator goes on to handle the interrupt;
\* in the resumed stream the inner loop ends and the generator returns.
InterruptBeforeReview ==
    /\ Running
    /\ node = "human_review"
    /\ ~resuming
    /\ pc' = IF pc = "streaming" /\ ~approval_handled THEN "at_interrupt" ELSE "returned"
    /\ UNCHANGED <<approval_state, memory, node, state, auto_approve, has_callback, approval_handled,
                   resuming, nodes_run, decisions, llm_yes, served, calls>>

\* graph.update_state(config, values): every value is written to its channel,
\* research_results through its reducer
update_state(values) == write_channels(values)

Decisions ==
    {[kind |-> "approve", feedback |-> NoneStr], [kind |-> "cancel", feedback |-> NoneStr]}
    \cup {[kind |-> "reject", feedback |-> f] : f \in Feedbacks}

generator_after_callback_swallowsCancel(d) == "resumed"

\* where the generator is after human_approval_callback: the callback returns
\* (approved, feedback), or raises KeyboardInterrupt ("cancel"), which no
\* handler of stream_interactive catches
generator_after_callback(d) == IF d.kind = "cancel" THEN "cancelled" ELSE "resumed"

\* the state the callback's decision makes stream_interactive pass to
\* update_state
decided_state(s, d) ==
    LET current_state == [s EXCEPT !.current_step = "awaiting_approval"]
    IN  IF d.kind = "approve"
        THEN [current_state EXCEPT !.plan_approved = TRUE, !.user_feedback = NoneStr]
        ELSE [current_state EXCEPT !.plan_approved = FALSE, !.user_feedback = d.feedback]

\* the body of `if "__interrupt__" in output and not approval_handled`, up to
\* the second graph.stream call
HandleInterrupt ==
    /\ pc = "at_interrupt"
    /\ IF Truthy(state.research_plan)
       THEN /\ approval_handled' = TRUE
            /\ IF auto_approve
               THEN /\ state' = update_state([state EXCEPT !.plan_approved = TRUE,
                                                           !.user_feedback = NoneStr])
                    /\ pc' = "resumed"
                    /\ UNCHANGED decisions
               ELSE IF has_callback /\ ~state.plan_approved
               THEN \E d \in Decisions :
                       /\ decisions' = Append(decisions, d.kind)
                       /\ pc' = generator_after_callback(d)
                       /\ IF d.kind = "cancel"
                          THEN UNCHANGED state
                          ELSE state' = update_state(decided_state(state, d))
               ELSE /\ pc' = "resumed"
                    /\ UNCHANGED <<state, decisions>>
       ELSE /\ pc' = "resumed"
            /\ UNCHANGED <<state, approval_handled, decisions>>
    /\ resuming' = (pc' = "resumed")
    /\ UNCHANGED <<approval_state, memory, node, auto_approve, has_callback, nodes_run, llm_yes, served, calls>>

\* the human_review node (first tick of the resumed stream) and its
\* conditional edge
HumanReviewNode ==
    /\ Running
    /\ node = "human_review"
    /\ resuming
    /\ LET out == human_review_node(state)
       IN  /\ state' = write_channels(out)
           /\ node' = should_continue_research(out)
    /\ resuming' = FALSE
    /\ nodes_run' = Append(nodes_run, "human_review")
    /\ UNCHANGED <<approval_state, memory, pc, auto_approve, has_callback, approval_handled,
                   decisions, llm_yes, served, calls>>

\* the researcher node and its conditional edge
ResearcherNode ==
    /\ Running
    /\ node = "researcher"
    /\ \E outcome \in TaskOutcomes, yes \in BOOLEAN :
          \E out \in {write_channels(researcher_node(state, outcome))} :
              /\ state' = out
              /\ served' = served \o get_next_task(state)
              /\ llm_yes' = (consults_llm(out) /\ yes)
              /\ node' = should_generate_report(out, yes)
    /\ nodes_run' = Append(nodes_run, "researcher")
    /\ UNCHANGED <<approval_state, memory, pc, auto_approve, has_callback, approval_handled, resuming,
                   decisions, calls>>

\* the rapporteur node and the edge rapporteur -> END
RapporteurNode ==
    /\ Running
    /\ node = "rapporteur"
    /\ IF summarize_findings_raises(state.research_results)
       THEN /\ pc' = "raised"
            /\ UNCHANGED <<state, node>>
       ELSE /\ state' = write_channels(rapporteur_node(state))
            /\ node' = "END"
            /\ pc' = pc
    /\ nodes_run' = Append(nodes_run, "rapporteur")
    /\ UNCHANGED <<approval_state, memory, auto_approve, has_callback, approval_handled, resuming,
                   decisions, llm_yes, served, calls>>

\* graph.stream is exhausted with the graph at END: the generator returns.
StreamEnds ==
    /\ Running
    /\ node = "END"
    /\ pc' = "returned"
    /\ UNCHANGED <<approval_state, memory, node, state, auto_approve, has_callback, approval_handled,
                   resuming, nodes_run, decisions, llm_yes, served, calls>>

\* The program as it is in the source.
Next == StartRun \/ CoordinatorNode \/ StreamEnds

Spec == Init /\ [][Next]_vars

\* The workflow with a Coordinator that provides delegate_to_planner.
NextDelegating ==
    \/ StartRun
    \/ CoordinatorNodeDelegating
    \/ PlannerNode
    \/ InterruptBeforeReview
    \/ HandleInterrupt
    \/ HumanReviewNode
    \/ ResearcherNode
    \/ RapporteurNode
    \/ StreamEnds

SpecDelegating == Init /\ [][NextDelegating]_vars

\* the same workflow, started by a call whose max_iterations is remembered
NextLogged ==
    \/ StartRunLogged
    \/ CoordinatorNodeDelegating
    \/ PlannerNode
    \/ InterruptBeforeReview
    \/ HandleInterrupt
    \/ HumanReviewNode
    \/ ResearcherNode
    \/ RapporteurNode
    \/ StreamEnds

SpecLogged == Init /\ [][NextLogged]_vars

\* graph.stream runs the node that is due: a due researcher node is
\* eventually executed.
FairSpecDelegating == SpecDelegating /\ WF_vars(ResearcherNode)

-----------------------------------------------------------------------------
(* Planner.get_next_task called directly on a state, as tests/test_planner.py
   does, with the returned task then completed as the Researcher completes it *)

\* most get_next_task calls made on one plan
MaxCalls == 3

\* sub-tasks in any status, with or without a 'priority' key
PlanTasks ==
    [task_id : TaskIds, priority : Priorities, status : Statuses,
     description : {<<"task">>}, search_queries : {<<"q1">>}, sources : {DefaultSources}]

\* state['research_plan']: None, {} or a plan with up to MaxTasks sub-tasks
PlanOptions ==
    {<<>>}
    \cup {<<[empty_dict |-> TRUE, research_goal |-> "goal", sub_tasks |-> <<>>,
             has_est |-> FALSE, estimated_iterations |-> 0]>>}
    \cup {<<[empty_dict |-> FALSE, research_goal |-> "goal", sub_tasks |-> ts,
             has_est |-> FALSE, estimated_iterations |-> 0]>> :
           ts \in SeqsUpTo(PlanTasks, MaxTasks)}

\* _create_test_state with a research_plan put into it
InitPlanner ==
    /\ pc = "planner_calls"
    /\ node = "START"
    /\ \E plan \in PlanOptions : state = [BlankState EXCEPT !.research_plan = plan]
    /\ auto_approve = FALSE
    /\ approval_state = InitialApprovalState
    /\ has_callback = FALSE
    /\ approval_handled = FALSE
    /\ resuming = FALSE
    /\ nodes_run = <<>>
    /\ decisions = <<>>
    /\ llm_yes = FALSE
    /\ served = <<>>
    /\ calls = <<>>
    /\ memory = EmptyMemory

\* next_task = planner.get_next_task(state)
CallGetNextTask ==
    /\ pc = "planner_calls"
    /\ Len(calls) < MaxCalls
    /\ calls' = Append(calls, [plan |-> state.research_plan,
                               result |-> get_next_task(state)])
    /\ UNCHANGED <<approval_state, memory, pc, node, state, auto_approve, has_callback, approval_handled,
                   resuming, nodes_run, decisions, llm_yes, served>>

\* the task returned last is completed: Researcher._add_results_to_state
CompleteReturnedTask ==
    /\ pc = "planner_calls"
    /\ calls # <<>>
    /\ calls[Len(calls)].result # <<>>
    /\ calls[Len(calls)].plan = state.research_plan
    /\ state' = add_results_to_state(state, <<>>, calls[Len(calls)].result[1])
    /\ UNCHANGED <<approval_state, memory, pc, node, auto_approve, has_callback, approval_handled,
                   resuming, nodes_run, decisions, llm_yes, served, calls>>

NextPlanner == CallGetNextTask \/ CompleteReturnedTask

PlannerSpec == InitPlanner /\ [][NextPlanner]_vars

-----------------------------------------------------------------------------
(* Planner.create_research_plan and Planner.modify_plan called directly on a
   state, as tests/test_planner.py does; calls holds the last call *)

\* user queries of the planning calls
PlanQueries == {"hello", "rag survey"}

\* 'sources' as the language model may declare them: key missing, empty,
\* partly allowed, entirely disallowed
DeclaredSources == {NoSources, <<>>, <<"invalid_source", "tavily">>, <<"arxiv">>}

DeclaredTasks ==
    [task_id : {1}, priority : {1}, status : {"pending"},
     description : {<<"task">>}, search_queries : {<<"q1">>},
     sources : DeclaredSources]

\* JSON objects the language model may answer with, sub_tasks up to length n
DeclaredPlans(n) ==
    [empty_dict : {FALSE}, research_goal : {"goal"},
     sub_tasks : SeqsUpTo(DeclaredTasks, n),
     has_est : {TRUE}, estimated_iterations : {MaxEst}]
    \cup [empty_dict : {FALSE}, research_goal : {"goal"},
          sub_tasks : SeqsUpTo(DeclaredTasks, n),
          has_est : {FALSE}, estimated_iterations : {0}]
    \cup {[empty_dict |-> TRUE, research_goal |-> "goal", sub_tasks |-> <<>>,
           has_est |-> FALSE, estimated_iterations |-> 0]}

\* responses of the language model: malformed ones and JSON objects
DeclaredAnswers(n) ==
    {[kind |-> "no_braces"], [kind |-> "bad_json"]}
    \cup {[kind |-> "json", plan |-> p] : p \in DeclaredPlans(n)}

\* _create_test_state, before any plan exists
InitPlanning ==
    /\ pc = "planning_calls"
    /\ node = "START"
    /\ \E q \in PlanQueries, m \in {1, DefaultMaxIterations} :
          state = [BlankState EXCEPT !.query = q, !.max_iterations = m]
    /\ auto_approve = FALSE
    /\ approval_state = InitialApprovalState
    /\ has_callback = FALSE
    /\ approval_handled = FALSE
    /\ resuming = FALSE
    /\ nodes_run = <<>>
    /\ decisions = <<>>
    /\ llm_yes = FALSE
    /\ served = <<>>
    /\ calls = <<>>
    /\ memory = EmptyMemory

\* updated_state = planner.create_research_plan(state)
CallCreateResearchPlan ==
    /\ pc = "planning_calls"
    /\ calls = <<>>
    /\ \E answer \in DeclaredAnswers(MaxTasks) :
          /\ state' = create_research_plan(state, answer)
          /\ calls' = <<[op |-> "create_research_plan", before |-> state,
                         answer |-> answer, after |-> state']>>
    /\ UNCHANGED <<approval_state, memory, pc, node, auto_approve, has_callback, approval_handled,
                   resuming, nodes_run, decisions, llm_yes, served>>

\* updated_state = planner.modify_plan(state, modifications)
CallModifyPlan ==
    /\ pc = "planning_calls"
    /\ calls # <<>>
    /\ \E answer \in DeclaredAnswers(MaxModifiedTasks) :
          /\ state' = modify_plan(state, answer)
          /\ calls' = <<[op |-> "modify_plan", before |-> state,
                         answer |-> answer, after |-> state']>>
    /\ UNCHANGED <<approval_state, memory, pc, node, auto_approve, has_callback, approval_handled,
                   resuming, nodes_run, decisions, llm_yes, served>>

NextPlanning == CallCreateResearchPlan \/ CallModifyPlan

PlanningSpec == InitPlanning /\ [][NextPlanning]_vars

-----------------------------------------------------------------------------
(* Planner.evaluate_context_sufficiency called directly on a state that has a
   plan, as tests/test_planner.py does; calls logs every call *)

\* most evaluate_context_sufficiency calls made on one state
MaxSufficiencyCalls == 2

\* n gathered results
ResultsOfLen(n) == [i \in 1..n |-> [task_id |-> 1, source |-> "tavily"]]

\* numbers of gathered results: around the threshold of the heuristic
ResultCounts == {0, 1, SufficientResults - 1, SufficientResults, SufficientResults + 1}

InitSufficiency ==
    /\ pc = "sufficiency_calls"
    /\ node = "START"
    /\ \E i \in 0..SufficientIterations + 1, m \in 1..DefaultMaxIterations,
          n \in ResultCounts :
          state = [BlankState EXCEPT
                      !.research_plan = <<create_fallback_plan("hello")>>,
                      !.iteration_count = i,
                      !.max_iterations = m,
                      !.research_results = ResultsOfLen(n)]
    /\ auto_approve = FALSE
    /\ approval_state = InitialApprovalState
    /\ has_callback = FALSE
    /\ approval_handled = FALSE
    /\ resuming = FALSE
    /\ nodes_run = <<>>
    /\ decisions = <<>>
    /\ llm_yes = FALSE
    /\ served = <<>>
    /\ calls = <<>>
    /\ memory = EmptyMemory

\* result = planner.evaluate_context_sufficiency(state); answer is what the
\* language model would answer to this call
CallEvaluateContextSufficiency ==
    /\ pc = "sufficiency_calls"
    /\ Len(calls) < MaxSufficiencyCalls
    /\ \E answer \in SufficiencyAnswers :
          calls' = Append(calls,
                     [state |-> state,
                      asked |-> consults_llm(state),
                      answer |-> answer,
                      result |-> evaluate_context_sufficiency(state, answer_is_yes(answer))])
    /\ UNCHANGED <<approval_state, memory, pc, node, state, auto_approve, has_callback, approval_handled,
                   resuming, nodes_run, decisions, llm_yes, served>>

SufficiencySpec == InitSufficiency /\ [][CallEvaluateContextSufficiency]_vars

-----------------------------------------------------------------------------
(* Researcher.execute_task called directly, as tests/test_researcher.py does *)

\* how a Researcher was built: which adapters it has, its budget, and which
\* adapters fail when called
Researchers ==
    [tavily : BOOLEAN, mcp : BOOLEAN, vector_memory : BOOLEAN,
     max_requests_per_task : 0..max_requests_per_task,
     failing : {{}, {"arxiv"}, {"tavily", "arxiv"}}]

SearchQueryLists == {<<>>, <<"q1">>, <<"q1", "q2">>, <<"q1", "q2", "q3">>}

SourceLists ==
    {<<>>, <<"tavily">>, <<"tavily", "arxiv">>, <<"arxiv", "invalid_source">>,
     <<"mcp", "arxiv">>}

ResearchTasks ==
    [task_id : {1}, priority : {1}, status : {"pending"}, description : {<<"task">>},
     search_queries : SearchQueryLists, sources : SourceLists]

\* what find_similar_queries returns to the probe: similarity in hundredths,
\* quality_score in tenths
Candidate(sim, quality, summary) ==
    [similarity |-> sim, quality_score |-> quality, results_summary |-> summary]

SimilarQueryLists ==
    {<<>>,
     <<Candidate(95, 45, "s1")>>,
     <<Candidate(90, 45, "s1")>>,
     <<Candidate(95, 39, "s1")>>,
     <<Candidate(91, 40, "s1"), Candidate(99, 45, "s2"), Candidate(99, 41, "s3")>>,
     <<Candidate(99, 39, "s1"), Candidate(92, 40, "s2"), Candidate(90, 50, "s3")>>}

InitResearcher ==
    /\ pc = "researcher_calls"
    /\ node = "START"
    /\ \E plans \in {<<>>,
                      <<[create_fallback_plan("hello") EXCEPT
                            !.sub_tasks = @ \o <<[@[1] EXCEPT !.task_id = 2]>>]>>},
          n \in 0..1 :
          state = [BlankState EXCEPT !.research_plan = plans,
                                     !.research_results = ResultsOfLen(n)]
    /\ auto_approve = FALSE
    /\ approval_state = InitialApprovalState
    /\ has_callback = FALSE
    /\ approval_handled = FALSE
    /\ resuming = FALSE
    /\ nodes_run = <<>>
    /\ decisions = <<>>
    /\ llm_yes = FALSE
    /\ served = <<>>
    /\ calls = <<>>
    /\ memory = EmptyMemory

\* updated_state = researcher.execute_task(state, task)
CallExecuteTask ==
    /\ pc = "researcher_calls"
    /\ calls = <<>>
    /\ \E r \in Researchers, task \in ResearchTasks, similar_queries \in SimilarQueryLists :
          /\ ~r.vector_memory => similar_queries = <<>>
          /\ \E out \in {execute_task_traced(r, state, task, similar_queries)} :
                /\ state' = out.state
                /\ calls' = <<[researcher |-> r, task |-> task,
                               similar_queries |-> similar_queries,
                               before |-> state, after |-> out.state,
                               attempts |-> out.attempts, stored |-> out.stored]>>
    /\ UNCHANGED <<approval_state, memory, pc, node, auto_approve, has_callback, approval_handled,
                   resuming, nodes_run, decisions, llm_yes, served>>

ResearcherSpec == InitResearcher /\ [][CallExecuteTask]_vars

-----------------------------------------------------------------------------
(* VectorMemory.store_research_result and find_similar_queries called on one
   memory while the clock advances; calls holds the call just made *)

\* most texts stored in one memory
MaxStored == 2
\* the clock stops here: one hour past the expiry of a record stored at 0
MaxHours == cache_expiry_hours + 1

\* the limit argument of find_similar_queries
Limits == {1, FallbackLimit}

InitMemory ==
    /\ pc = "memory_calls"
    /\ node = "START"
    /\ state = BlankState
    /\ auto_approve = FALSE
    /\ approval_state = InitialApprovalState
    /\ has_callback = FALSE
    /\ approval_handled = FALSE
    /\ resuming = FALSE
    /\ nodes_run = <<>>
    /\ decisions = <<>>
    /\ llm_yes = FALSE
    /\ served = <<>>
    /\ calls = <<>>
    /\ memory = EmptyMemory

\* memory.store_research_result(query, results, quality_score=0.0)
CallStoreResearchResult ==
    /\ pc = "memory_calls"
    /\ \E query \in Texts :
          /\ \/ Len(memory.fallback_storage) < MaxStored
             \/ \E k \in 1..Len(memory.fallback_storage) :
                   memory.fallback_storage[k].query = query
          /\ memory' = store_research_result(memory, query, 0)
          /\ calls' = <<[op |-> "store_research_result", query |-> query,
                         now |-> memory.now, limit |-> 0, layer |-> "none",
                         memory |-> memory, results |-> <<>>]>>
    /\ UNCHANGED <<approval_state, pc, node, state, auto_approve, has_callback, approval_handled,
                   resuming, nodes_run, decisions, llm_yes, served>>

\* results = memory.find_similar_queries(query)
CallFindSimilarQueries ==
    /\ pc = "memory_calls"
    /\ \E query \in Texts, limit \in Limits :
          \E out \in {find_similar_queries_traced(memory, query, limit)} :
              calls' = <<[op |-> "find_similar_queries", query |-> query,
                          now |-> memory.now, limit |-> limit,
                          layer |-> out.layer,
                          memory |-> memory,
                          results |-> out.results]>>
    /\ UNCHANGED <<approval_state, pc, node, state, auto_approve, has_callback, approval_handled,
                   resuming, nodes_run, decisions, llm_yes, served, memory>>

\* an hour passes
HourPasses ==
    /\ pc = "memory_calls"
    /\ memory.now < MaxHours
    /\ memory' = [memory EXCEPT !.now = @ + 1]
    /\ calls' = <<>>
    /\ UNCHANGED <<approval_state, pc, node, state, auto_approve, has_callback, approval_handled,
                   resuming, nodes_run, decisions, llm_yes, served>>

NextMemory ==
    \/ CallStoreResearchResult
    \/ CallFindSimilarQueries
    \/ HourPasses

MemorySpec == InitMemory /\ [][NextMemory]_vars

-----------------------------------------------------------------------------
(* Coordinator._classify_query called directly, as tests/test_coordinator.py
   does, with the language model's answer as input *)

\* most _classify_query calls logged
MaxClassifyCalls == 3

InitClassify ==
    /\ pc = "coordinator_calls"
    /\ node = "START"
    /\ state = BlankState
    /\ auto_approve = FALSE
    /\ approval_state = InitialApprovalState
    /\ has_callback = FALSE
    /\ approval_handled = FALSE
    /\ resuming = FALSE
    /\ nodes_run = <<>>
    /\ decisions = <<>>
    /\ llm_yes = FALSE
    /\ served = <<>>
    /\ calls = <<>>
    /\ memory = EmptyMemory

\* query_type = coordinator._classify_query(user_query)
CallClassifyQuery ==
    /\ pc = "coordinator_calls"
    /\ Len(calls) < MaxClassifyCalls
    /\ \E answer \in ClassifyAnswers :
          calls' = Append(calls, [op |-> "classify_query", answer |-> answer,
                                  result |-> classify_query(answer)])
    /\ UNCHANGED <<approval_state, memory, pc, node, state, auto_approve, has_callback, approval_handled,
                   resuming, nodes_run, decisions, llm_yes, served>>

ClassifySpec == InitClassify /\ [][CallClassifyQuery]_vars

-----------------------------------------------------------------------------
(* Rapporteur._format_citations *)

\* citations[:50]
MaxCitations == 50

\* dict.get(key, default)
get(d, key, default) == IF key \in DOMAIN d THEN d[key] ELSE default

\* str.capitalize() on the source names
capitalize(source) ==
    CASE source = "tavily" -> "Tavily"
      [] source = "arXiv" -> "Arxiv"
      [] OTHER -> source

\* the items in the order the two loops visit them, each with its result's source
RECURSIVE visited(_)
visited(results) ==
    IF results = <<>> THEN <<>>
    ELSE LET result == Head(results)
             items == get(result, "results", <<>>)
         IN  [k \in 1..Len(items) |->
                 [title |-> get(items[k], "title", "Untitled"),
                  url |-> get(items[k], "url", ""),
                  source |-> get(result, "source", "Unknown")]]
             \o visited(Tail(results))

\* one line of the list: "{citation_num}. {title} - {Source} - [{url}]({url})",
\* or without the link when url is empty
citation_line(citation_num, item) ==
    [citation_num |-> citation_num, title |-> item.title,
     source |-> capitalize(item.source), url |-> item.url]

RECURSIVE scan_urlOnly(_, _, _, _, _)
scan_urlOnly(items, i, seen_urls, seen_titles, kept) ==
    IF i > Len(items) THEN kept
    ELSE LET title == items[i].title
             url == items[i].url
         IN  IF url # "" /\ url \in seen_urls
             THEN scan_urlOnly(items, i + 1, seen_urls, seen_titles, kept)
             ELSE scan_urlOnly(items, i + 1,
                       IF url # "" THEN seen_urls \cup {url} ELSE seen_urls,
                       IF title # "" THEN seen_titles \cup {title} ELSE seen_titles,
                       Append(kept, i))

\* the loop body of _format_citations from item i on: kept lists the visited
\* items for which a line was appended
RECURSIVE scan(_, _, _, _, _)
scan(items, i, seen_urls, seen_titles, kept) ==
    IF i > Len(items) THEN kept
    ELSE LET title == items[i].title
             url == items[i].url
         IN  IF url # "" /\ url \in seen_urls
             THEN scan(items, i + 1, seen_urls, seen_titles, kept)
             ELSE IF title # "" /\ title \in seen_titles
             THEN scan(items, i + 1, seen_urls, seen_titles, kept)
             ELSE scan(items, i + 1,
                       IF url # "" THEN seen_urls \cup {url} ELSE seen_urls,
                       IF title # "" THEN seen_titles \cup {title} ELSE seen_titles,
                       Append(kept, i))

\* Rapporteur._format_citations, with the items it kept
format_citations_traced(results) ==
    LET items == visited(results)
        kept == scan(items, 1, {}, {}, <<>>)
        citations == [n \in 1..Len(kept) |-> citation_line(n, items[kept[n]])]
    IN  [items |-> items, kept |-> kept,
         citations |-> SubSeq(citations, 1, Min(MaxCitations, Len(citations)))]

-----------------------------------------------------------------------------
(* VectorMemory.store_research_result called on a memory whose recency layer
   is full or one short of full; calls logs every store *)

\* most stores logged on one memory
MaxEvictionStores == 2

\* the k-th text stored: k written with the letters a (1) and b (0)
NumberedText(k) ==
    [i \in 1..7 |-> IF (k \div (2 ^ (i - 1))) % 2 = 1 THEN "a" ELSE "b"]

\* the document store_research_result builds for a text at a time
DocumentAt(query, time) ==
    [query |-> query, quality_score |-> 0, timestamp |-> time,
     query_id |-> generate_query_id(query)]

\* a memory after n stores of distinct texts, the k-th at time stamp[k]
FilledMemory(n, stamp) ==
    [recent_cache |->
        [k \in 1..n |-> [query_id |-> generate_query_id(NumberedText(k)),
                         data |-> DocumentAt(NumberedText(k), stamp[k]),
                         timestamp |-> stamp[k]]],
     fallback_storage |-> [k \in 1..n |-> DocumentAt(NumberedText(k), stamp[k])],
     collection |-> EmptyMemory.collection,
     now |-> cache_max_size]

\* when the texts were stored: one per hour, all in the same hour, or one per
\* hour with the first text stored again at the end
Stampings(n) ==
    {[k \in 1..n |-> k],
     [k \in 1..n |-> 0],
     [k \in 1..n |-> IF k = 1 THEN n ELSE k - 1]}

\* texts stored next: two new ones, the first and the last of those present
EvictionTexts ==
    {NumberedText(cache_max_size + 1), NumberedText(cache_max_size + 2),
     NumberedText(1), NumberedText(cache_max_size - 1)}

InitEviction ==
    /\ pc = "eviction_calls"
    /\ node = "START"
    /\ state = BlankState
    /\ auto_approve = FALSE
    /\ approval_state = InitialApprovalState
    /\ has_callback = FALSE
    /\ approval_handled = FALSE
    /\ resuming = FALSE
    /\ nodes_run = <<>>
    /\ decisions = <<>>
    /\ llm_yes = FALSE
    /\ served = <<>>
    /\ calls = <<>>
    /\ \E n \in {cache_max_size - 1, cache_max_size} :
          \E stamp \in Stampings(n) : memory = FilledMemory(n, stamp)

\* memory.store_research_result(query, results), now or an hour later
CallStoreWhenFull ==
    /\ pc = "eviction_calls"
    /\ Len(calls) < MaxEvictionStores
    /\ \E query \in EvictionTexts, later \in 0..1 :
          \E out \in {store_research_result([memory EXCEPT !.now = @ + later], query, 0)} :
              /\ memory' = out
              /\ calls' = Append(calls, [op |-> "store_research_result", query |-> query,
                                         now |-> out.now,
                                         before |-> memory.recent_cache,
                                         after |-> out.recent_cache])
    /\ UNCHANGED <<approval_state, pc, node, state, auto_approve, has_callback, approval_handled,
                   resuming, nodes_run, decisions, llm_yes, served>>

EvictionSpec == InitEviction /\ [][CallStoreWhenFull]_vars

-----------------------------------------------------------------------------
(* VectorMemory.store_research_result and update_quality_score on a memory
   with or without the persistent collection; calls holds the call just made *)

\* texts stored and ids addressed; the last one is never stored
QualityTexts == {<<"a">>, <<"A">>}
QualityIds == {generate_query_id(q) : q \in QualityTexts} \cup {generate_query_id(<<>>)}

\* quality scores passed by callers
Scores == {0, 1}

InitQuality ==
    /\ pc = "quality_calls"
    /\ node = "START"
    /\ state = BlankState
    /\ auto_approve = FALSE
    /\ approval_state = InitialApprovalState
    /\ has_callback = FALSE
    /\ approval_handled = FALSE
    /\ resuming = FALSE
    /\ nodes_run = <<>>
    /\ decisions = <<>>
    /\ llm_yes = FALSE
    /\ served = <<>>
    /\ calls = <<>>
    /\ memory \in {EmptyMemory, EmptyPersistentMemory}

\* memory.store_research_result(query, results, quality_score=0.0), as
\* every caller stores
CallStoreScored ==
    /\ pc = "quality_calls"
    /\ \E query \in QualityTexts, quality_score \in {0} :
          /\ memory' = store_research_result(memory, query, quality_score)
          /\ calls' = <<[op |-> "store_research_result",
                         query_id |-> generate_query_id(query),
                         new_score |-> quality_score]>>
    /\ UNCHANGED <<approval_state, pc, node, state, auto_approve, has_callback, approval_handled,
                   resuming, nodes_run, decisions, llm_yes, served>>

\* memory.update_quality_score(query_id, new_score)
CallUpdateQualityScore ==
    /\ pc = "quality_calls"
    /\ \E query_id \in QualityIds, new_score \in Scores :
          /\ memory' = update_quality_score(memory, query_id, new_score)
          /\ calls' = <<[op |-> "update_quality_score", query_id |-> query_id,
                         new_score |-> new_score]>>
    /\ UNCHANGED <<approval_state, pc, node, state, auto_approve, has_callback, approval_handled,
                   resuming, nodes_run, decisions, llm_yes, served>>

\* VectorMemory.find_similar_queries in the build with chromadb: the recency
\* layer first, then collection.query.  Which stored texts the embedding
\* model puts within the threshold of the query is not decided here: near
\* names them, and the query's own text is always among them.
find_similar_queries_persistent(m, query, near) ==
    LET cached_results == check_cache(m, query)
        hits == SelectSeq(m.collection.items,
                          LAMBDA item : item.id \in near \cup {generate_query_id(query)})
    IN  IF cached_results.raised
        THEN [layer |-> "raised", results |-> <<>>]
        ELSE IF cached_results.results # <<>>
        THEN [layer |-> "recency", results |-> cached_results.results]
        ELSE [layer |-> "collection",
              results |-> [k \in 1..Len(hits) |->
                              [query |-> hits[k].document.query,
                               quality_score |-> hits[k].document.quality_score,
                               query_id |-> hits[k].document.query_id]]]

\* memory.find_similar_queries(query) on a memory that has the collection
CallFindRated ==
    /\ pc = "quality_calls"
    /\ memory.collection.present
    /\ \E query \in QualityTexts, near \in {{}, QualityIds} :
          \E out \in {find_similar_queries_persistent(memory, query, near)} :
              calls' = <<[op |-> "find_similar_queries", query_id |-> generate_query_id(query),
                         layer |-> out.layer, results |-> out.results]>>
    /\ UNCHANGED <<approval_state, pc, node, state, auto_approve, has_callback, approval_handled,
                   resuming, nodes_run, decisions, llm_yes, served, memory>>

\* an hour passes between two calls
QualityHourPasses ==
    /\ pc = "quality_calls"
    /\ memory.now < MaxHours
    /\ memory' = [memory EXCEPT !.now = @ + 1]
    /\ calls' = <<>>
    /\ UNCHANGED <<approval_state, pc, node, state, auto_approve, has_callback, approval_handled,
                   resuming, nodes_run, decisions, llm_yes, served>>

NextQuality ==
    \/ CallStoreScored
    \/ CallUpdateQualityScore
    \/ CallFindRated
    \/ QualityHourPasses

QualitySpec == InitQuality /\ [][NextQuality]_vars

-----------------------------------------------------------------------------
(* Rapporteur._format_citations called once on research results; calls holds
   the call made *)

\* longest list of hand-picked items in one call
MaxItems == 3

\* search hits: equal titles with different urls, equal urls with different
\* titles, empty and missing titles and urls
CitationItems ==
    {[title |-> "Article 1", url |-> "http://example.com/1"],
     [title |-> "Article 1", url |-> "http://example.com/2"],
     [title |-> "Article 2", url |-> "http://example.com/2"],
     [title |-> "", url |-> "http://example.com/3"],
     [title |-> "", url |-> ""],
     [url |-> "http://example.com/4"],
     [title |-> "Untitled"]}

\* the n-th of many distinct hits
NumberedItem(n) ==
    [title |-> "Paper " \o ToString(n), url |-> "http://example.com/p" \o ToString(n)]

\* research results holding the given hits: the first k from tavily, a result
\* without hits, and the rest in a result that names no source
ResultsOf(hits, k) ==
    <<[source |-> "tavily", results |-> SubSeq(hits, 1, Min(k, Len(hits)))],
      [source |-> "arXiv"],
      [results |-> SubSeq(hits, Min(k, Len(hits)) + 1, Len(hits))]>>

\* n distinct hits with the first one repeated after it
ManyHits(n) ==
    <<NumberedItem(1), NumberedItem(1)>> \o [k \in 1..(n - 1) |-> NumberedItem(k + 1)]

CitationInputs ==
    {ResultsOf(hits, k) :
        hits \in UNION {[1..n -> CitationItems] : n \in 0..MaxItems}, k \in 0..1}
    \cup {ResultsOf(ManyHits(n), n) :
             n \in {MaxCitations - 1, MaxCitations, MaxCitations + 1}}

InitCitations ==
    /\ pc = "citation_calls"
    /\ node = "START"
    /\ state = BlankState
    /\ auto_approve = FALSE
    /\ approval_state = InitialApprovalState
    /\ has_callback = FALSE
    /\ approval_handled = FALSE
    /\ resuming = FALSE
    /\ nodes_run = <<>>
    /\ decisions = <<>>
    /\ llm_yes = FALSE
    /\ served = <<>>
    /\ calls = <<>>
    /\ memory = EmptyMemory

\* rapporteur._format_citations(results)
CallFormatCitations ==
    /\ pc = "citation_calls"
    /\ calls = <<>>
    /\ \E results \in CitationInputs :
          \E out \in {format_citations_traced(results)} :
              calls' = <<[op |-> "format_citations", results |-> results,
                         items |-> out.items, kept |-> out.kept,
                         citations |-> out.citations]>>
    /\ UNCHANGED <<approval_state, pc, node, state, auto_approve, has_callback, approval_handled,
                   resuming, nodes_run, decisions, llm_yes, served, memory>>

CitationSpec == InitCitations /\ [][CallFormatCitations]_vars

-----------------------------------------------------------------------------
(* DeepSeekLLM.generate; calls logs every call *)

\* for _ in range(2)
GenerateAttempts == 2

\* most generate calls logged
MaxGenerateCalls == 2

\* what client.chat.completions.create does on one attempt: it answers, or
\* raises APIConnectionError, its subclass APITimeoutError, or another error
CreateOutcomes == {"ok", "APIConnectionError", "APITimeoutError", "RateLimitError"}

\* except APIConnectionError
is_connection_error(outcome) == outcome \in {"APIConnectionError", "APITimeoutError"}

RECURSIVE generate_retriesAll(_, _)
generate_retriesAll(outcomes, attempt) ==
    IF attempt > GenerateAttempts
    THEN [attempts |-> GenerateAttempts, raised |-> TRUE, from |-> GenerateAttempts]
    ELSE IF outcomes[attempt] = "ok"
    THEN [attempts |-> attempt, raised |-> FALSE, from |-> attempt]
    ELSE generate_retriesAll(outcomes, attempt + 1)

\* DeepSeekLLM.generate from the given attempt on: the attempts made, whether
\* it raised, and the attempt whose response or error it surfaced
RECURSIVE generate(_, _)
generate(outcomes, attempt) ==
    IF attempt > GenerateAttempts
    THEN [attempts |-> GenerateAttempts, raised |-> TRUE, from |-> GenerateAttempts]
    ELSE IF outcomes[attempt] = "ok"
    THEN [attempts |-> attempt, raised |-> FALSE, from |-> attempt]
    ELSE IF is_connection_error(outcomes[attempt])
    THEN generate(outcomes, attempt + 1)
    ELSE [attempts |-> attempt, raised |-> TRUE, from |-> attempt]

InitGenerate ==
    /\ pc = "generate_calls"
    /\ node = "START"
    /\ state = BlankState
    /\ auto_approve = FALSE
    /\ approval_state = InitialApprovalState
    /\ has_callback = FALSE
    /\ approval_handled = FALSE
    /\ resuming = FALSE
    /\ nodes_run = <<>>
    /\ decisions = <<>>
    /\ llm_yes = FALSE
    /\ served = <<>>
    /\ calls = <<>>
    /\ memory = EmptyMemory

\* llm.generate(prompt)
CallGenerate ==
    /\ pc = "generate_calls"
    /\ Len(calls) < MaxGenerateCalls
    /\ \E outcomes \in [1..GenerateAttempts -> CreateOutcomes] :
          calls' = Append(calls, [op |-> "generate", outcomes |-> outcomes,
                                  out |-> generate(outcomes, 1)])
    /\ UNCHANGED <<approval_state, pc, node, state, auto_approve, has_callback, approval_handled,
                   resuming, nodes_run, decisions, llm_yes, served, memory>>

GenerateSpec == InitGenerate /\ [][CallGenerate]_vars

-----------------------------------------------------------------------------
(* Researcher.execute_task with its VectorMemory, called again and again in
   one process; calls holds the call just made *)

\* what execute_task reads from an answer of find_similar_queries: similarity
\* in hundredths, rounded up so that the comparison with the gate is exact
probe_candidates(found) ==
    [k \in 1..Len(found) |->
        Candidate((found[k].similarity[1] * 100 + found[k].similarity[2] - 1)
                      \div found[k].similarity[2],
                  found[k].quality_score, "Found 3 results")]

execute_task_with_memory_rated(m, r, s, task) ==
    LET similar == probe_candidates(find_similar_queries(m, task.description, CacheTopMatches))
        out == execute_task_traced(r, s, task, similar)
    IN  [similar |-> similar, attempts |-> out.attempts, state |-> out.state,
         memory |-> IF out.stored
                    THEN store_research_result(m, task.description, CacheQualityGate)
                    ELSE m]

\* Researcher.execute_task: the cache probe, the gate, the live search and
\* the store with quality_score=0.0
execute_task_with_memory(m, r, s, task) ==
    LET similar == probe_candidates(find_similar_queries(m, task.description, CacheTopMatches))
        out == execute_task_traced(r, s, task, similar)
    IN  [similar |-> similar, attempts |-> out.attempts, state |-> out.state,
         memory |-> IF out.stored
                    THEN store_research_result(m, task.description, 0)
                    ELSE m]

InitExecute ==
    /\ pc = "execute_calls"
    /\ node = "START"
    /\ state = BlankState
    /\ auto_approve = FALSE
    /\ approval_state = InitialApprovalState
    /\ has_callback = FALSE
    /\ approval_handled = FALSE
    /\ resuming = FALSE
    /\ nodes_run = <<>>
    /\ decisions = <<>>
    /\ llm_yes = FALSE
    /\ served = <<>>
    /\ calls = <<>>
    /\ memory = EmptyMemory

\* researcher.execute_task(state, task) on a fresh state, now or an hour
\* later, by a researcher with or without a search adapter
CallExecuteTaskWithMemory ==
    /\ pc = "execute_calls"
    /\ \E description \in Texts, tavily \in BOOLEAN, later \in 0..1 :
          LET r == [tavily |-> tavily, mcp |-> FALSE, vector_memory |-> TRUE,
                    max_requests_per_task |-> max_requests_per_task, failing |-> {}]
              task == [task_id |-> 1, priority |-> 1, status |-> "pending",
                       description |-> description, search_queries |-> <<"q1">>,
                       sources |-> <<"tavily">>]
          IN  /\ memory.now + later <= MaxHours
              /\ \/ Len(memory.fallback_storage) < MaxStored
                 \/ \E k \in 1..Len(memory.fallback_storage) :
                       memory.fallback_storage[k].query = description
              /\ \E out \in {execute_task_with_memory(
                                  [memory EXCEPT !.now = @ + later], r, state, task)} :
                    /\ memory' = out.memory
                    /\ calls' = <<[op |-> "execute_task", description |-> description,
                                   similar |-> out.similar, attempts |-> out.attempts,
                                   results |-> out.state.research_results]>>
    /\ UNCHANGED <<approval_state, pc, node, state, auto_approve, has_callback, approval_handled,
                   resuming, nodes_run, decisions, llm_yes, served>>

ExecuteSpec == InitExecute /\ [][CallExecuteTaskWithMemory]_vars

-----------------------------------------------------------------------------
(* main_web.py: the research thread started by run_research_web and the
   handlers of the two approval buttons, which run in threads of their own.
   pc is the position of the research thread; every read and every write of
   approval_state is a step.  calls logs the clicks, decisions what
   human_approval_callback returned. *)

\* most clicks on the approval buttons
MaxClicks == 3
\* most runs started with the start button
MaxRuns == 2

\* the feedback human_approval_callback returns when the dict holds none
DefaultWebFeedback == "<refine the plan>"

\* where the research thread can be
WebPositions ==
    {"web_idle", "web_task", "web_polling", "web_leaving", "web_deciding",
     "web_feedback", "web_returned"}

\* the research thread is inside human_approval_callback and has set waiting
CallbackWaits == pc \in {"web_polling", "web_leaving", "web_deciding", "web_feedback"}

\* the wait a click falls into: the number of the callback call that has
\* started waiting, 0 when none has
current_wait == IF CallbackWaits THEN Len(decisions) + 1 ELSE 0

InitWeb ==
    /\ pc = "web_idle"
    /\ node = "START"
    /\ state = BlankState
    /\ auto_approve = FALSE
    /\ approval_state = InitialApprovalState
    /\ has_callback = FALSE
    /\ approval_handled = FALSE
    /\ resuming = FALSE
    /\ nodes_run = <<>>
    /\ decisions = <<>>
    /\ llm_yes = FALSE
    /\ served = <<>>
    /\ calls = <<>>
    /\ memory = EmptyMemory

\* run_research_web with a question and auto_approve off, when no research
\* thread is alive: reset_state(), then the thread starts on the workflow
run_research_web ==
    /\ pc \in {"web_idle", "web_returned"}
    /\ Len(decisions) < MaxRuns
    /\ approval_state' = InitialApprovalState
    /\ pc' = "web_task"
    /\ UNCHANGED <<decisions, calls>>
    /\ UNCHANGED <<node, state, auto_approve, has_callback, approval_handled,
                   resuming, nodes_run, llm_yes, served, memory>>

\* human_approval_callback, called by stream_interactive at the interrupt:
\* approval_state["waiting"] = True
CallbackSetsWaiting ==
    /\ pc = "web_task"
    /\ approval_state' = [approval_state EXCEPT !.waiting = TRUE]
    /\ pc' = "web_polling"
    /\ UNCHANGED <<decisions, calls>>
    /\ UNCHANGED <<node, state, auto_approve, has_callback, approval_handled,
                   resuming, nodes_run, llm_yes, served, memory>>

\* while approval_state["approved"] is None: time.sleep(0.2) -- the test
\* that ends the loop
CallbackPolls ==
    /\ pc = "web_polling"
    /\ approval_state.approved # <<>>
    /\ pc' = "web_leaving"
    /\ UNCHANGED <<approval_state, decisions, calls>>
    /\ UNCHANGED <<node, state, auto_approve, has_callback, approval_handled,
                   resuming, nodes_run, llm_yes, served, memory>>

\* approval_state["waiting"] = False
CallbackClearsWaiting ==
    /\ pc = "web_leaving"
    /\ approval_state' = [approval_state EXCEPT !.waiting = FALSE]
    /\ pc' = "web_deciding"
    /\ UNCHANGED <<decisions, calls>>
    /\ UNCHANGED <<node, state, auto_approve, has_callback, approval_handled,
                   resuming, nodes_run, llm_yes, served, memory>>

\* if approval_state["approved"]: return True, None
CallbackReadsApproved ==
    /\ pc = "web_deciding"
    /\ IF approval_state.approved = <<TRUE>>
       THEN /\ decisions' = Append(decisions, [approved |-> TRUE, feedback |-> NoneStr])
            /\ pc' = "web_returned"
       ELSE /\ pc' = "web_feedback"
            /\ UNCHANGED decisions
    /\ UNCHANGED <<approval_state, calls>>
    /\ UNCHANGED <<node, state, auto_approve, has_callback, approval_handled,
                   resuming, nodes_run, llm_yes, served, memory>>

\* feedback = approval_state["feedback"] or <default>; return False, feedback
CallbackReadsFeedback ==
    /\ pc = "web_feedback"
    /\ decisions' = Append(decisions,
                           [approved |-> FALSE,
                            feedback |-> IF TruthyStr(approval_state.feedback)
                                         THEN approval_state.feedback
                                         ELSE DefaultWebFeedback])
    /\ pc' = "web_returned"
    /\ UNCHANGED <<approval_state, calls>>
    /\ UNCHANGED <<node, state, auto_approve, has_callback, approval_handled,
                   resuming, nodes_run, llm_yes, served, memory>>

\* approve_plan, the handler of the approve button
approve_plan ==
    /\ Len(calls) < MaxClicks
    /\ approval_state' = [approval_state EXCEPT !.approved = <<TRUE>>]
    /\ calls' = Append(calls, [op |-> "approve_plan", approved |-> TRUE,
                               feedback |-> NoneStr, wait |-> current_wait,
                               done |-> TRUE])
    /\ UNCHANGED <<pc, decisions>>
    /\ UNCHANGED <<node, state, auto_approve, has_callback, approval_handled,
                   resuming, nodes_run, llm_yes, served, memory>>

\* reject_plan, the handler of the reject button, up to its first write:
\* approval_state["approved"] = False.  The button's handler runs one call
\* at a time.
RejectPlanSetsApproved ==
    /\ Len(calls) < MaxClicks
    /\ \A c \in 1..Len(calls) : calls[c].done
    /\ \E feedback \in Feedbacks :
          calls' = Append(calls, [op |-> "reject_plan", approved |-> FALSE,
                                  feedback |-> feedback, wait |-> current_wait,
                                  done |-> FALSE])
    /\ approval_state' = [approval_state EXCEPT !.approved = <<FALSE>>]
    /\ UNCHANGED <<pc, decisions>>
    /\ UNCHANGED <<node, state, auto_approve, has_callback, approval_handled,
                   resuming, nodes_run, llm_yes, served, memory>>

\* reject_plan's second write: approval_state["feedback"] = feedback
RejectPlanSetsFeedback ==
    /\ \E c \in 1..Len(calls) :
          /\ ~calls[c].done
          /\ approval_state' = [approval_state EXCEPT !.feedback = calls[c].feedback]
          /\ calls' = [calls EXCEPT ![c].done = TRUE]
    /\ UNCHANGED <<pc, decisions>>
    /\ UNCHANGED <<node, state, auto_approve, has_callback, approval_handled,
                   resuming, nodes_run, llm_yes, served, memory>>

NextWeb ==
    \/ run_research_web
    \/ CallbackSetsWaiting
    \/ CallbackPolls
    \/ CallbackClearsWaiting
    \/ CallbackReadsApproved
    \/ CallbackReadsFeedback
    \/ approve_plan
    \/ RejectPlanSetsApproved
    \/ RejectPlanSetsFeedback

WebSpec == InitWeb /\ [][NextWeb]_vars

-----------------------------------------------------------------------------
(* Properties *)

Count(seq, x) == Cardinality({i \in 1..Len(seq) : seq[i] = x})
Ran(x) == \E i \in 1..Len(nodes_run) : nodes_run[i] = x
Ended == pc \in {"returned", "cancelled", "raised"}
PendingExists(s) ==
    /\ Truthy(s.research_plan)
    /\ \E i \in 1..Len(s.research_plan[1].sub_tasks) :
          s.research_plan[1].sub_tasks[i].status = "pending"

\* C1: for a query classified GREETING or INAPPROPRIATE, initialize_research
\* returns current_step = 'completed', needs_more_research = false and a
\* simple_response that is set, and the run goes from the coordinator node
\* straight to END: no other node is executed or scheduled.
C1_SimpleQueryShortCircuits ==
    (pc # "idle" /\ state.query_type \in {"GREETING", "INAPPROPRIATE"}) =>
        /\ state.current_step = "completed"
        /\ state.needs_more_research = FALSE
        /\ state.simple_response # NoneStr
        /\ node \in {"coordinator", "END"}
        /\ nodes_run \in {<<>>, <<"coordinator">>}
        /\ pc \in {"streaming", "returned"}

C1_Witness ==
    /\ pc = "returned"
    /\ state.query_type = "INAPPROPRIATE"
    /\ nodes_run = <<"coordinator">>

\* C2 (as claimed): for a RESEARCH query the coordinator node completes
\* without error and the planner is next; every execution of the planner node
\* is followed by arrival at human_review.
C2_CoordinatorHandsOverToPlanner ==
    /\ pc # "raised"
    /\ (state.query_type = "RESEARCH" /\ nodes_run = <<"coordinator">>) => node = "planner"
    /\ (nodes_run # <<>> /\ nodes_run[Len(nodes_run)] = "planner") => node = "human_review"

\* C3: the researcher node never runs, and is never scheduled, while
\* plan_approved is false; human_review runs only in the stream resumed after
\* the interrupt; and plan_approved is true only by auto-approve or by an
\* approving decision.
C3_ResearcherNeedsApproval ==
    /\ ((Running /\ node = "researcher") \/ Ran("researcher")) => state.plan_approved
    /\ (Ran("human_review") \/ node = "researcher") => pc # "streaming"
    /\ state.plan_approved => (auto_approve \/ decisions = <<"approve">>)

C3_Witness ==
    /\ Running
    /\ node = "researcher"
    /\ ~auto_approve
    /\ decisions = <<"approve">>

\* C4 (as claimed): after a rejection the workflow replans and asks for a
\* decision again, until the plan is approved and research starts; so a run in
\* which a plan was rejected does not end before approval and research.
C4_RejectionAsksAgain ==
    (pc = "returned" /\ Count(decisions, "reject") > 0) =>
        (state.plan_approved /\ Ran("researcher"))

\* C5 (as claimed): a run of stream_interactive that has ended has exactly one
\* of: a simple_response, a non-empty final_report, a cancellation.
C5_RunEndsInOneOutcome ==
    Ended =>
        Cardinality({o \in {"simple", "report", "cancelled"} :
            \/ o = "simple" /\ state.simple_response # NoneStr
            \/ o = "report" /\ TruthyStr(state.final_report)
            \/ o = "cancelled" /\ pc = "cancelled"}) = 1

\* C6: a cancel raised by the decision callback ends the run: the generator
\* is left through the exception, the graph's state is the one the interrupt
\* found, and no node runs and nothing changes afterwards.
C6_CancelTerminatesRun ==
    [][/\ (Count(decisions', "cancel") > 0) =>
              /\ pc' = "cancelled"
              /\ state' = state
              /\ nodes_run' = nodes_run
              /\ ~\E i \in 1..Len(nodes_run') : nodes_run'[i] \in {"researcher", "rapporteur"}
       /\ pc = "cancelled" => UNCHANGED vars]_vars

C6_Witness == pc = "cancelled" /\ decisions = <<"cancel">> /\ Ran("planner")

\* C7: after each execution of the researcher node the next node is the
\* researcher again iff iteration_count < max_iterations, the sufficiency
\* evaluation is false and a pending sub-task exists; otherwise it is the
\* rapporteur.
C7_ResearchLoopCondition ==
    [][(Running /\ node = "researcher" /\ nodes_run' # nodes_run) =>
          /\ node' \in {"researcher", "rapporteur"}
          /\ (node' = "researcher") <=>
                /\ state'.iteration_count < state'.max_iterations
                /\ ~evaluate_context_sufficiency(state', llm_yes')
                /\ PendingExists(state')]_vars

C7_Witness ==
    /\ Count(nodes_run, "researcher") = 2
    /\ node = "rapporteur"
    /\ llm_yes

\* C8 (as claimed): every execution of the researcher node executes one
\* sub-task and adds 1 to iteration_count, so iteration_count is the number of
\* researcher-node executions.
C8_OneTaskPerPass ==
    /\ state.iteration_count = Count(nodes_run, "researcher")
    /\ Len(served) = Count(nodes_run, "researcher")

\* C8 (amended): an execution of the researcher node that finds a pending
\* sub-task executes exactly that one and adds 1 to iteration_count; one that
\* finds none executes nothing and leaves iteration_count as it is.
C8_OneTaskPerPassWithPending ==
    [][(Running /\ node = "researcher" /\ nodes_run' # nodes_run) =>
          IF PendingExists(state)
          THEN /\ state'.iteration_count = state.iteration_count + 1
               /\ Len(served') = Len(served) + 1
               /\ served'[Len(served')].status = "pending"
               /\ state'.current_task # <<>>
               /\ state'.current_task[1].task_id = served'[Len(served')].task_id
          ELSE /\ state'.iteration_count = state.iteration_count
               /\ served' = served
               /\ state'.research_plan = state.research_plan]_vars

C8_Witness ==
    /\ Count(nodes_run, "researcher") = 2
    /\ state.iteration_count = 2
    /\ Len(served) = 2

\* C9: once the plan is approved the research loop ends: the researcher node
\* runs at most max_iterations times (once if max_iterations is below 1), and
\* from every state in which the researcher node is due, the rapporteur node
\* becomes due.
C9_ResearchLoopTerminates ==
    /\ [](Count(nodes_run, "researcher") <=
             IF state.max_iterations < 1 THEN 1 ELSE state.max_iterations)
    /\ ((Running /\ node = "researcher" /\ state.plan_approved) ~> (node = "rapporteur"))

\* iterations exhausted without sufficiency and without any result
C9_Witness ==
    /\ node = "rapporteur"
    /\ state.iteration_count = state.max_iterations
    /\ state.iteration_count >= 2
    /\ state.research_results = <<>>
    /\ PendingExists(state)

\* C10: get_next_task returns a pending sub-task whose (priority, task_id) is
\* least among the pending ones; calls on the same plan return the same task;
\* successive calls, with returned tasks completed in between, return tasks in
\* non-decreasing (priority, task_id) order; and it returns none exactly when
\* there is no plan or no pending sub-task.
C10_NextTaskIsLeastPending ==
    /\ \A c \in 1..Len(calls) :
          LET call == calls[c]
              tasks == IF Truthy(call.plan) THEN call.plan[1].sub_tasks ELSE <<>>
              pending == {i \in 1..Len(tasks) : tasks[i].status = "pending"}
          IN  /\ (call.result = <<>>) <=> (pending = {})
              /\ call.result # <<>> =>
                    /\ \E i \in pending : tasks[i] = call.result[1]
                    /\ \A i \in pending : KeyLE(call.result[1], tasks[i])
    /\ \A c, d \in 1..Len(calls) :
          calls[c].plan = calls[d].plan => calls[c].result = calls[d].result
    /\ \A c \in 1..Len(calls) - 1 :
          calls[c].result # <<>> /\ calls[c + 1].result # <<>> =>
              KeyLE(calls[c].result[1], calls[c + 1].result[1])

\* the first call returns the second sub-task of the list ahead of the pending
\* first one, the second call (after completion) the first sub-task, the third none
C10_Witness ==
    /\ Len(calls) = 3
    /\ calls[1].plan # <<>>
    /\ Len(calls[1].plan[1].sub_tasks) = 2
    /\ calls[1].plan[1].sub_tasks[1].status = "pending"
    /\ calls[1].result = <<calls[1].plan[1].sub_tasks[2]>>
    /\ calls[2].result = <<calls[1].plan[1].sub_tasks[1]>>
    /\ calls[3].result = <<>>
    /\ calls[3].plan # <<>>

\* the last direct call, when it was a call of op
LastCallWas(op) == calls # <<>> /\ calls[1].op = op

\* C11: for a malformed planner response (no braces, or braces around text
\* that does not parse) create_research_plan returns with the fallback plan
\* stored: a single pending sub-task 'Research: {query}' with task_id 1,
\* sources ['tavily'] and priority 1, and estimated_iterations 2.
C11_MalformedResponseGivesFallbackPlan ==
    (LastCallWas("create_research_plan") /\ calls[1].answer.kind # "json") =>
        /\ Len(calls[1].after.research_plan) = 1
        /\ LET plan == calls[1].after.research_plan[1]
           IN  /\ ~plan.empty_dict
               /\ plan.has_est /\ plan.estimated_iterations = 2
               /\ Len(plan.sub_tasks) = 1
               /\ plan.sub_tasks[1].task_id = 1
               /\ plan.sub_tasks[1].priority = 1
               /\ plan.sub_tasks[1].status = "pending"
               /\ plan.sub_tasks[1].sources = <<"tavily">>
               /\ plan.sub_tasks[1].description = <<"Research: ", calls[1].before.query>>

C11_Witness ==
    /\ LastCallWas("create_research_plan")
    /\ calls[1].answer.kind = "bad_json"
    /\ calls[1].before.query = "rag survey"
    /\ calls[1].after.research_plan # <<>>

\* C12 (as claimed): after every create_research_plan call max_iterations
\* equals the stored plan's estimated_iterations (3 if it has none), on the
\* success path and on both fallback paths.
C12_MaxIterationsFollowsPlan ==
    LastCallWas("create_research_plan") =>
        LET plan == calls[1].after.research_plan[1]
        IN  calls[1].after.max_iterations =
                IF plan.has_est THEN plan.estimated_iterations ELSE 3

\* C13 (as claimed): in every state reached through create_research_plan and
\* modify_plan every sub-task of the stored plan has a non-empty sources list
\* with allowed source identifiers only.
C13_StoredSourcesAllowed ==
    (pc = "planning_calls" /\ Truthy(state.research_plan)) =>
        \A i \in 1..Len(state.research_plan[1].sub_tasks) :
            LET sources == state.research_plan[1].sub_tasks[i].sources
            IN  /\ sources # <<>>
                /\ \A k \in 1..Len(sources) : sources[k] = "tavily"

\* C14: modify_plan replaces the plan by the parsed plan when the response
\* parses, and otherwise returns with the plan and every other field of the
\* state unchanged.
C14_ModifyPlanReplacesOrKeeps ==
    LastCallWas("modify_plan") =>
        /\ \A f \in DOMAIN calls[1].before \ {"research_plan"} :
              calls[1].after[f] = calls[1].before[f]
        /\ IF calls[1].answer.kind = "json"
           THEN calls[1].after.research_plan = <<calls[1].answer.plan>>
           ELSE calls[1].after.research_plan = calls[1].before.research_plan

\* a failed modification after a plan with two sub-tasks was stored
C14_Witness ==
    /\ LastCallWas("modify_plan")
    /\ calls[1].answer.kind = "bad_json"
    /\ Truthy(calls[1].before.research_plan)
    /\ Len(calls[1].after.research_plan[1].sub_tasks) = 2

\* C15: evaluate_context_sufficiency decides in this order, asking the
\* language model only in the last case: iteration_count >= max_iterations
\* gives true (also with no results); else no results gives false; else
\* iteration_count >= 2 with at least 10 results gives true; else the result
\* is true iff the model's answer, trimmed and uppercased, is 'YES'.
C15_SufficiencyHeuristicsInOrder ==
    pc = "sufficiency_calls" =>
        \A c \in 1..Len(calls) :
            LET s == calls[c].state
                n == Len(s.research_results)
            IN  IF s.iteration_count >= s.max_iterations
                THEN calls[c].result /\ ~calls[c].asked
                ELSE IF n = 0
                THEN ~calls[c].result /\ ~calls[c].asked
                ELSE IF s.iteration_count >= 2 /\ n >= 10
                THEN calls[c].result /\ ~calls[c].asked
                ELSE /\ calls[c].asked
                     /\ calls[c].result <=> calls[c].answer \in {"YES", " yes\n"}

\* the boundary: iteration_count = max_iterations with no results
C15_Witness ==
    /\ pc = "sufficiency_calls"
    /\ calls # <<>>
    /\ calls[1].state.iteration_count = calls[1].state.max_iterations
    /\ calls[1].state.research_results = <<>>
    /\ calls[1].result
    /\ calls[1].answer = "NO"

\* C16 (as claimed): two calls on an unchanged state give the same boolean.
C16_SameStateSameResult ==
    pc = "sufficiency_calls" =>
        \A c, d \in 1..Len(calls) :
            calls[c].state = calls[d].state => calls[c].result = calls[d].result

\* C16 (amended): two calls on an unchanged state give the same boolean when
\* a heuristic decides, whatever the model would have answered; when the
\* model is asked, each call returns what the model answered to it; and the
\* call leaves the state as it was.
C16_SameResultWhenHeuristicDecides ==
    [][pc = "sufficiency_calls" =>
          /\ state' = state
          /\ \A c, d \in 1..Len(calls') :
                (calls'[c].state = calls'[d].state /\ ~calls'[c].asked) =>
                    calls'[c].result = calls'[d].result
          /\ \A c \in 1..Len(calls') :
                calls'[c].asked =>
                    (calls'[c].result <=> answer_is_yes(calls'[c].answer))]_vars

\* two calls where the heuristic of 2 iterations and 10 results decides, with
\* the model ready to answer differently
C16_Witness ==
    /\ pc = "sufficiency_calls"
    /\ Len(calls) = 2
    /\ ~calls[1].asked
    /\ calls[1].state.iteration_count < calls[1].state.max_iterations
    /\ calls[1].state.research_results # <<>>
    /\ calls[1].answer = "YES" /\ calls[2].answer = "NO"
    /\ calls[1].result /\ calls[2].result

\* the (query, source) pairs of a task in the order of the nested loops:
\* queries outside, sources inside
NestedPairs(task) ==
    LET S == Len(task.sources)
    IN  [k \in 1..(Len(task.search_queries) * S) |->
            <<task.search_queries[((k - 1) \div S) + 1], task.sources[((k - 1) % S) + 1]>>]

\* the logged call of execute_task took the standard path
StandardPath(c) ==
    ~(c.researcher.vector_memory
      /\ \E k \in 1..Len(c.similar_queries) :
            c.similar_queries[k].similarity > 90 /\ c.similar_queries[k].quality_score >= 40)

\* C17: on the standard path execute_task makes at most max_requests_per_task
\* search attempts, queries in the outer loop and sources in the inner one:
\* the attempts are the first pairs of that nested order, exactly B of them
\* when the budget B is below Q*S, and no later pair is attempted.
C17_BudgetBoundsAttempts ==
    pc = "researcher_calls" =>
        \A c \in 1..Len(calls) :
            StandardPath(calls[c]) =>
                LET B == calls[c].researcher.max_requests_per_task
                    pairs == NestedPairs(calls[c].task)
                    made == calls[c].attempts
                IN  /\ Len(made) <= B
                    /\ Len(made) = IF B < Len(pairs) THEN B ELSE Len(pairs)
                    /\ \A k \in 1..Len(made) : made[k] = pairs[k]

\* the scenario of the test: 3 queries, 2 sources, budget 2
C17_Witness ==
    /\ pc = "researcher_calls"
    /\ calls # <<>>
    /\ StandardPath(calls[1])
    /\ calls[1].task.search_queries = <<"q1", "q2", "q3">>
    /\ calls[1].task.sources = <<"tavily", "arxiv">>
    /\ calls[1].researcher.max_requests_per_task = 2
    /\ calls[1].attempts = <<<<"q1", "tavily">>, <<"q1", "arxiv">>>>

\* the results a logged call appended to research_results
Appended(c) ==
    SubSeq(c.after.research_results, Len(c.before.research_results) + 1,
           Len(c.after.research_results))

\* C18: when the cache probe returns a candidate with similarity > 0.9 and
\* quality_score >= 4.0, execute_task searches nothing and stores nothing,
\* appends exactly one result with source 'cached_vector_memory' built from
\* the most similar such candidate, and marks the task completed; when no
\* candidate passes (similarity exactly 0.9, or quality below 4.0) it appends
\* no cached result.
C18_CacheHitSkipsSearch ==
    pc = "researcher_calls" =>
        \A c \in 1..Len(calls) :
            LET sq == calls[c].similar_queries
                good == {k \in 1..Len(sq) :
                            sq[k].similarity > 90 /\ sq[k].quality_score >= 40}
                new == Appended(calls[c])
                plan == calls[c].after.research_plan
            IN  IF calls[c].researcher.vector_memory /\ good # {}
                THEN /\ calls[c].attempts = <<>>
                     /\ ~calls[c].stored
                     /\ Len(new) = 1
                     /\ new[1].source = "cached_vector_memory"
                     /\ new[1].task_id = calls[c].task.task_id
                     /\ \A k \in good : sq[k].similarity <= new[1].similarity_score
                     /\ \E k \in good : /\ sq[k].similarity = new[1].similarity_score
                                         /\ sq[k].quality_score = new[1].cached_quality
                                         /\ sq[k].results_summary = new[1].results
                     /\ plan # <<>> =>
                            \E i \in 1..Len(plan[1].sub_tasks) :
                                /\ plan[1].sub_tasks[i].task_id = calls[c].task.task_id
                                /\ plan[1].sub_tasks[i].status = "completed"
                ELSE \A k \in 1..Len(new) : new[k].source # "cached_vector_memory"

\* a hit among three candidates, two of them equally most similar, on a task
\* that had searches to make
C18_Witness ==
    /\ pc = "researcher_calls"
    /\ calls # <<>>
    /\ Len(calls[1].similar_queries) = 3
    /\ calls[1].researcher.tavily
    /\ calls[1].researcher.max_requests_per_task > 0
    /\ calls[1].task.search_queries # <<>>
    /\ calls[1].task.sources = <<"tavily">>
    /\ calls[1].before.research_plan # <<>>
    /\ Len(Appended(calls[1])) = 1
    /\ Appended(calls[1])[1].source = "cached_vector_memory"
    /\ Appended(calls[1])[1].similarity_score = 99
    /\ calls[1].attempts = <<>>

\* C19: on the standard path execute_task appends exactly one result per
\* search attempt it makes (an error-tagged one when the attempt failed), so
\* the number of results appended equals the number of attempts counted
\* against the budget.
C19_OneResultPerAttempt ==
    pc = "researcher_calls" =>
        \A c \in 1..Len(calls) :
            StandardPath(calls[c]) =>
                Len(Appended(calls[c])) = Len(calls[c].attempts)

\* C20: after store_research_result(query, ...), a find_similar_queries call
\* with the same text, before the record expires, returns that record among
\* its results with similarity >= 0.55, whatever the text.
C20_CacheRoundTrip ==
    pc = "memory_calls" =>
        \A d \in 1..Len(calls) :
            \A c \in 1..Len(calls[d].memory.recent_cache) :
                LET stored == calls[d].memory.recent_cache[c]
                IN  (/\ calls[d].op = "find_similar_queries"
                     /\ calls[d].query = stored.data.query
                     /\ calls[d].now - stored.timestamp <= 2) =>
                        \E k \in 1..Len(calls[d].results) :
                            /\ calls[d].results[k].query = stored.data.query
                            /\ calls[d].results[k].similarity[1] * 100
                                  >= 55 * calls[d].results[k].similarity[2]

\* a is a prefix of b
IsPrefix(a, b) == Len(a) <= Len(b) /\ SubSeq(b, 1, Len(a)) = a

\* C21: research_results is append-only across the run: after every node
\* execution the previous results are a prefix of the results, and after a
\* researcher pass the results are the previous ones followed by exactly the
\* results of the one task executed in that pass (nothing dropped, reordered
\* or duplicated by the merge of the node's returned state).
C21_ResultsAppendOnly ==
    [][nodes_run' # nodes_run =>
          /\ IsPrefix(state.research_results, state'.research_results)
          /\ nodes_run'[Len(nodes_run')] = "researcher" =>
                IF get_next_task(state) = <<>>
                THEN state'.research_results = state.research_results
                ELSE \E outcome \in TaskOutcomes :
                        state'.research_results =
                            state.research_results
                                \o task_results(get_next_task(state)[1], outcome)]_vars

\* the sub-tasks of the plan a state holds
SubTasksOf(s) == IF s.research_plan = <<>> THEN <<>> ELSE s.research_plan[1].sub_tasks

C23_DelegateSetsPlanningOnly ==
    [][(/\ nodes_run' # nodes_run
        /\ nodes_run'[Len(nodes_run')] = "coordinator"
        /\ state.query_type = "RESEARCH") =>
          /\ pc' # "raised"
          /\ state'.current_step = "planning"
          /\ state' = [state EXCEPT !.current_step = "planning"]]_vars

\* C24: query classification returns the model's answer, trimmed and
\* uppercased, when that is GREETING, INAPPROPRIATE or RESEARCH, and RESEARCH
\* for every other answer; so the query type is always one of the three tags.
C24_ClassificationIsATag ==
    pc = "coordinator_calls" =>
        \A c \in 1..Len(calls) :
            /\ calls[c].result \in {"GREETING", "INAPPROPRIATE", "RESEARCH"}
            /\ calls[c].answer \in {"GREETING", " greeting\n"} => calls[c].result = "GREETING"
            /\ calls[c].answer \in {"INAPPROPRIATE", " Inappropriate "}
                  => calls[c].result = "INAPPROPRIATE"
            /\ calls[c].answer \in {"RESEARCH", "not sure", ""} => calls[c].result = "RESEARCH"

\* an answer that is no tag and an answer that is a tag once trimmed and
\* uppercased
C24_Witness ==
    /\ pc = "coordinator_calls"
    /\ Len(calls) >= 2
    /\ calls[1].answer = "not sure" /\ calls[1].result = "RESEARCH"
    /\ calls[2].answer = " greeting\n" /\ calls[2].result = "GREETING"

\* C25: query and query_type are fixed by initialize_research and no node or
\* agent operation of the workflow changes them afterwards.
C25_QueryAndTypeFixed ==
    [][pc # "idle" =>
          /\ state'.query = state.query
          /\ state'.query_type = state.query_type]_vars

\* a run through every node, with the plan revised on the way
C25_Witness ==
    /\ Ran("coordinator") /\ Ran("planner") /\ Ran("human_review")
    /\ Ran("researcher") /\ Ran("rapporteur")
    /\ state.query = "hello"
    /\ state.query_type = "RESEARCH"

\* the non-expired records of the recency layer whose composite score with the
\* query of a logged lookup is above 0.55, as positions of recent_cache
Candidates(c) ==
    LET cache == c.memory.recent_cache
    IN  {k \in 1..Len(cache) :
            /\ c.now - cache[k].timestamp <= 2
            /\ ~similarity(c.query, cache[k].data.query).raises
            /\ similarity(c.query, cache[k].data.query).value[1] * 100
                  > 55 * similarity(c.query, cache[k].data.query).value[2]}

\* C26: find_similar_queries consults the backing layer only when the
\* recency layer yields no candidate; otherwise it returns exactly the
\* non-expired records with composite score > 0.55, at most 3 of them, sorted
\* by score descending, whatever limit the caller passed.
C26_RecencyLayerFirst ==
    pc = "memory_calls" =>
        \A d \in 1..Len(calls) :
            calls[d].op = "find_similar_queries" =>
                LET good == Candidates(calls[d])
                    cache == calls[d].memory.recent_cache
                    res == calls[d].results
                IN  /\ calls[d].layer = "fallback" => good = {}
                    /\ good # {} =>
                          /\ Len(res) = IF Cardinality(good) < 3 THEN Cardinality(good) ELSE 3
                          /\ \A k \in 1..Len(res) :
                                \E g \in good : cache[g].query_id = res[k].query_id
                          /\ \A k \in 1..Len(res) - 1 :
                                res[k].similarity[1] * res[k + 1].similarity[2]
                                    >= res[k + 1].similarity[1] * res[k].similarity[2]

\* C28: a lookup answered by the recency layer never returns a record older
\* than the TTL of 2 hours, and a record not older than the TTL is never
\* left out for its age: when the scan completes, every record of age <= 2
\* scoring above 0.55 is returned while there are at most 3 of them.
C28_TtlAtReadTime ==
    pc = "memory_calls" =>
        \A d \in 1..Len(calls) :
            LET cache == calls[d].memory.recent_cache
                res == calls[d].results
                scored == {k \in 1..Len(cache) :
                             /\ ~similarity(calls[d].query, cache[k].data.query).raises
                             /\ similarity(calls[d].query, cache[k].data.query).value[1] * 100
                                  > 55 * similarity(calls[d].query, cache[k].data.query).value[2]}
                young == {k \in scored : calls[d].now - cache[k].timestamp <= 2}
            IN  /\ calls[d].layer = "recency" =>
                      \A r \in 1..Len(res) :
                          \A k \in 1..Len(cache) :
                              cache[k].query_id = res[r].query_id =>
                                  calls[d].now - cache[k].timestamp <= 2
                /\ (/\ calls[d].op = "find_similar_queries"
                    /\ calls[d].layer # "raised"
                    /\ Cardinality(young) <= 3) =>
                      \A k \in young :
                          \E r \in 1..Len(res) : res[r].query_id = cache[k].query_id

\* a lookup that skips a record of age 3 and returns one of age exactly 2
C28_Witness ==
    /\ pc = "memory_calls"
    /\ calls # <<>>
    /\ calls[1].op = "find_similar_queries"
    /\ calls[1].layer = "recency"
    /\ Len(calls[1].results) = 1
    /\ \E k, j \in 1..Len(calls[1].memory.recent_cache) :
          LET cache == calls[1].memory.recent_cache
          IN  /\ cache[k].query_id = calls[1].results[1].query_id
              /\ calls[1].now - cache[k].timestamp = 2
              /\ calls[1].now - cache[j].timestamp = 3
              /\ cache[j].data.query = calls[1].query

\* the query ids held by a recency layer
IdsOf(cache) == {cache[k].query_id : k \in 1..Len(cache)}

\* C27: every store writes its record to the recency layer; the layer never
\* holds more than 100 entries; a store made at capacity evicts the entry
\* with the oldest timestamp and no other, and a store below capacity evicts
\* nothing.
C27_EvictsOldestAtCapacity ==
    pc = "eviction_calls" =>
        \A c \in 1..Len(calls) :
            LET before == calls[c].before
                after == calls[c].after
                new == calls[c].query
            IN  /\ \E k \in 1..Len(after) :
                      /\ after[k].query_id = new
                      /\ after[k].data.query = new
                      /\ after[k].timestamp = calls[c].now
                /\ Len(after) <= 100
                /\ \A k \in 1..Len(after) :
                      after[k].query_id # new =>
                          \E j \in 1..Len(before) : before[j] = after[k]
                /\ IF Len(before) >= 100
                   THEN \E e \in 1..Len(before) :
                           /\ \A j \in 1..Len(before) :
                                 before[e].timestamp <= before[j].timestamp
                           /\ IdsOf(after) = (IdsOf(before) \ {before[e].query_id}) \cup {new}
                   ELSE IdsOf(after) = IdsOf(before) \cup {new}

\* a store of a new text at capacity whose oldest entry is not the first one
C27_Witness ==
    /\ pc = "eviction_calls"
    /\ calls # <<>>
    /\ Len(calls[1].before) = 100
    /\ calls[1].query \notin IdsOf(calls[1].before)
    /\ calls[1].before[1].query_id \in IdsOf(calls[1].after)
    /\ Len(calls[1].after) = 100

\* the document or metadata after an update differs from the one before in
\* nothing but the quality score and the updated timestamp
OnlyScoreAndUpdateTime(before, after) ==
    /\ DOMAIN after = DOMAIN before \cup {"quality_score", "updated_timestamp"}
    /\ \A key \in DOMAIN before \ {"quality_score", "updated_timestamp"} :
          after[key] = before[key]

\* C29: update_quality_score changes only the quality score and the updated
\* timestamp of the addressed record of the persistent layer; without a
\* persistent layer or for an unknown id it changes nothing; the recency
\* layer, the fallback store and every other record are never changed.
C29_UpdateQualityScoreFrame ==
    [][(pc = "quality_calls" /\ calls' # <<>> /\ calls'[1].op = "update_quality_score") =>
          LET items == memory.collection.items
              after == memory'.collection.items
              query_id == calls'[1].query_id
              known == \E k \in 1..Len(items) : items[k].id = query_id
          IN  /\ memory'.recent_cache = memory.recent_cache
              /\ memory'.fallback_storage = memory.fallback_storage
              /\ memory'.collection.present = memory.collection.present
              /\ Len(after) = Len(items)
              /\ \A k \in 1..Len(items) :
                    IF items[k].id = query_id
                    THEN /\ after[k].id = query_id
                         /\ after[k].document.quality_score = calls'[1].new_score
                         /\ after[k].document.updated_timestamp = memory.now
                         /\ OnlyScoreAndUpdateTime(items[k].document, after[k].document)
                         /\ OnlyScoreAndUpdateTime(items[k].metadata, after[k].metadata)
                    ELSE after[k] = items[k]
              /\ (~memory.collection.present \/ ~known) => memory' = memory
    ]_vars

\* an update has just rescored one of two persisted records an hour after it
\* was stored, and the recency layer still shows the score it was stored with
C29_Witness ==
    /\ pc = "quality_calls"
    /\ calls # <<>>
    /\ calls[1].op = "update_quality_score"
    /\ Len(memory.collection.items) = 2
    /\ \E k \in 1..2 :
          /\ memory.collection.items[k].id = calls[1].query_id
          /\ "updated_timestamp" \in DOMAIN memory.collection.items[k].document
          /\ memory.collection.items[k].document.updated_timestamp
                > memory.collection.items[k].document.timestamp
          /\ memory.collection.items[k].document.quality_score = 1
          /\ \E c \in 1..Len(memory.recent_cache) :
                /\ memory.recent_cache[c].query_id = calls[1].query_id
                /\ memory.recent_cache[c].data.quality_score = 0
    /\ \E k \in 1..2 :
          "updated_timestamp" \notin DOMAIN memory.collection.items[k].document

\* two visited items count as the same source: same non-empty url, or same
\* non-empty title
SameCitation(a, b) ==
    \/ a.url # "" /\ a.url = b.url
    \/ a.title # "" /\ a.title = b.title

\* the positions of the visited items that were kept
KeptOf(call) == {call.kept[n] : n \in 1..Len(call.kept)}

\* C30 as stated: no two emitted citations share a non-empty URL or share a
\* title, the first visited item with a URL or title is kept, the citations
\* are numbered from 1 in visiting order, and at most 50 are emitted.
C30_CitationsDeduplicated ==
    pc = "citation_calls" =>
        \A c \in 1..Len(calls) :
            LET out == calls[c].citations
                items == calls[c].items
            IN  /\ Len(out) <= 50
                /\ \A i \in 1..Len(items) :
                      (\A j \in 1..(i - 1) :
                          /\ ~(items[j].url # "" /\ items[j].url = items[i].url)
                          /\ items[j].title # items[i].title)
                      => i \in KeptOf(calls[c])
                /\ \A n, m \in 1..Len(calls[c].kept) :
                      n < m => calls[c].kept[n] < calls[c].kept[m]
                /\ \A n \in 1..Len(out) : out[n].citation_num = n
                /\ \A n, m \in 1..Len(out) :
                      n < m => /\ ~(out[n].url # "" /\ out[n].url = out[m].url)
                               /\ out[n].title # out[m].title

\* C30, amended: no two emitted citations share a non-empty URL or a
\* non-empty title; a visited item is kept exactly when no item kept before
\* it has its non-empty URL or non-empty title; the kept items are numbered
\* 1, 2, ... in visiting order and the first 50 of them are emitted.
C30_CitationsDeduplicatedNonEmpty ==
    pc = "citation_calls" =>
        \A c \in 1..Len(calls) :
            LET out == calls[c].citations
                items == calls[c].items
                kept == calls[c].kept
            IN  /\ Len(out) <= 50
                /\ Len(out) = Min(50, Len(kept))
                /\ \A n, m \in 1..Len(kept) : n < m => kept[n] < kept[m]
                /\ \A n \in 1..Len(out) :
                      /\ out[n].citation_num = n
                      /\ out[n].title = items[kept[n]].title
                      /\ out[n].url = items[kept[n]].url
                      /\ out[n].source = capitalize(items[kept[n]].source)
                /\ \A n, m \in 1..Len(out) :
                      n < m => /\ ~(out[n].url # "" /\ out[n].url = out[m].url)
                               /\ ~(out[n].title # "" /\ out[n].title = out[m].title)
                /\ \A i \in 1..Len(items) :
                      i \in KeptOf(calls[c]) <=>
                          ~\E j \in KeptOf(calls[c]) :
                              j < i /\ SameCitation(items[j], items[i])

\* a call that dropped a repeated item, kept 51 and emitted the first 50
C30_Witness ==
    /\ pc = "citation_calls"
    /\ calls # <<>>
    /\ Len(calls[1].items) = 52
    /\ Len(calls[1].kept) = 51
    /\ 2 \notin KeptOf(calls[1])
    /\ Len(calls[1].citations) = 50
    /\ calls[1].citations[2].title = calls[1].items[3].title

\* C31: generate makes at most two attempts; it returns the first successful
\* response, retries exactly once after a connectivity failure, raises the
\* last connectivity error when both attempts fail that way, and raises any
\* other error at once, without a further attempt.
C31_GenerateRetriesOnce ==
    pc = "generate_calls" =>
        \A c \in 1..Len(calls) :
            LET o == calls[c].outcomes
                out == calls[c].out
                conn(k) == o[k] \in {"APIConnectionError", "APITimeoutError"}
            IN  /\ out.attempts \in 1..2
                /\ o[1] = "ok" => out = [attempts |-> 1, raised |-> FALSE, from |-> 1]
                /\ (conn(1) /\ o[2] = "ok")
                      => out = [attempts |-> 2, raised |-> FALSE, from |-> 2]
                /\ (conn(1) /\ o[2] # "ok")
                      => out = [attempts |-> 2, raised |-> TRUE, from |-> 2]
                /\ (o[1] # "ok" /\ ~conn(1))
                      => out = [attempts |-> 1, raised |-> TRUE, from |-> 1]

\* a call that failed to connect, tried again and returned the second response,
\* after a call that raised a rate-limit error on its first attempt
C31_Witness ==
    /\ pc = "generate_calls"
    /\ Len(calls) = 2
    /\ calls[1].outcomes = <<"RateLimitError", "ok">>
    /\ calls[1].out.raised
    /\ calls[2].outcomes = <<"APITimeoutError", "ok">>
    /\ ~calls[2].out.raised
    /\ calls[2].out.from = 2

\* C32: in every state of a workflow run iteration_count is at most
\* max_iterations, whatever max_iterations a plan or caller sets, 0 included.
C32_IterationCountBounded == state.iteration_count <= state.max_iterations

\* C33: when the caller passes max_iterations to stream_interactive, the
\* researcher executes at most that many tasks in the run, whatever the plan
\* says about estimated_iterations.
C33_CallerBoundsTasks ==
    (calls # <<>> /\ calls[1].op = "stream_interactive" /\ calls[1].max_iterations > 0)
        => Len(served) <= calls[1].max_iterations

\* C34: a researcher pass that executes a task lowers the number of pending
\* sub-tasks of the plan by exactly one, and the sub-task that becomes
\* completed is the one get_next_task returned for that pass.
C34_ExecutedTaskIsCompleted ==
    [][(Running /\ node = "researcher" /\ nodes_run' # nodes_run /\ PendingExists(state)) =>
          LET p == next_task_position(state)
              before == state.research_plan[1].sub_tasks
              after == state'.research_plan[1].sub_tasks
              pending(tasks) == {i \in 1..Len(tasks) : tasks[i].status = "pending"}
          IN  /\ Len(after) = Len(before)
              /\ after[p].status = "completed"
              /\ Cardinality(pending(after)) = Cardinality(pending(before)) - 1]_vars

\* C35: in every state reached through create_research_plan and modify_plan
\* every sub-task of the stored plan has the status pending or completed; a
\* sub-task returned without a status is stored as pending.
C35_StoredStatusPendingOrCompleted ==
    Truthy(state.research_plan) =>
        \A i \in 1..Len(state.research_plan[1].sub_tasks) :
            state.research_plan[1].sub_tasks[i].status \in {"pending", "completed"}

\* C36: every result in the state's research results, the one made on a cache
\* hit included, carries a list of items, and once the rapporteur has consumed
\* the results of a run, with or without a cache hit, final_report is set.
C36_ResultsCarryItemLists ==
    /\ \A i \in 1..Len(state.research_results) :
          state.research_results[i].results.type = "list"
    /\ Ran("rapporteur") => state.final_report # "<None>"

\* C37: when every cache record was written by execute_task and
\* update_quality_score is never called, execute_task never takes the
\* cache-hit path: no result comes from the cache, and every task goes to
\* live search.
C37_NoCacheHitWithoutRating ==
    pc = "execute_calls" =>
        /\ \A k \in 1..Len(memory.recent_cache) :
              memory.recent_cache[k].data.quality_score = 0
        /\ \A c \in 1..Len(calls) :
              /\ \A i \in 1..Len(calls[c].results) :
                    calls[c].results[i].source # "cached_vector_memory"
              /\ calls[c].attempts = <<<<"q1", "tavily">>>>

\* a task whose description was stored by an earlier call and is found again
\* with similarity 1 is still searched live
C37_Witness ==
    /\ pc = "execute_calls"
    /\ calls # <<>>
    /\ calls[1].similar # <<>>
    /\ calls[1].similar[1].similarity = 100
    /\ calls[1].similar[1].quality_score = 0
    /\ calls[1].attempts # <<>>
    /\ Len(calls[1].results) = 1

\* C38: after update_quality_score(id, s) succeeded on a stored record, a later
\* find_similar_queries that returns the record reports quality_score s,
\* whichever layer answers (the record was not stored again after the update).
C38_FindReportsUpdatedScore ==
    (pc = "quality_calls" /\ calls # <<>> /\ calls[1].op = "find_similar_queries") =>
        \A r \in 1..Len(calls[1].results), k \in 1..Len(memory.collection.items) :
            LET result == calls[1].results[r]
                item == memory.collection.items[k]
            IN  (/\ item.id = result.query_id
                 /\ "updated_timestamp" \in DOMAIN item.document
                 /\ \A c \in 1..Len(memory.recent_cache) :
                       memory.recent_cache[c].query_id = item.id
                           => memory.recent_cache[c].timestamp < item.document.updated_timestamp)
                => result.quality_score = item.document.quality_score

\* C39: a store of a text whose id is already in the recency layer replaces
\* that one record where it stands and removes no other record, also when the
\* layer is at capacity; after every store the layer holds one record for
\* each text in it.
C39_RestoreReplacesInPlace ==
    pc = "eviction_calls" =>
        \A c \in 1..Len(calls) :
            LET before == calls[c].before
                after == calls[c].after
                new == generate_query_id(calls[c].query)
            IN  /\ new \in IdsOf(before) =>
                      /\ Len(after) = Len(before)
                      /\ \A k \in 1..Len(before) :
                            IF before[k].query_id = new
                            THEN after[k].query_id = new
                            ELSE after[k] = before[k]
                /\ \A k, j \in 1..Len(after) :
                      after[k].data.query = after[j].data.query => k = j

\* C40: every decision human_approval_callback returns in the web front end
\* was made by a click that came after that call of the callback had started
\* waiting; a click made earlier is never what the callback returns.
C40_DecisionMadeWhileWaiting ==
    pc \in WebPositions =>
        \A k \in 1..Len(decisions) :
            \E c \in 1..Len(calls) :
                /\ calls[c].wait = k
                /\ calls[c].approved = decisions[k].approved

====
